---- MODULE Spec2Model ----
(***************************************************************************)
(* Cue timeline and visual grounding engine of tts-flask-app.              *)
(*                                                                         *)
(* Three specifications share the variables below:                        *)
(*   Spec       main(): draft cue loop, choice of the timing source and    *)
(*              the grid-snap pass (src/main.py 692-772);                  *)
(*   SpecAudio  build_audio_snapped_to_cues on a bounded set of cue lists  *)
(*              (src/audio_utils.py 340-371);                              *)
(*   SpecVideo  the per_sentence branch of main(): get_images_for_cues,    *)
(*              the image expansion loop and build_slideshow_video_cfr     *)
(*              (src/main.py 816-839, src/video_utils.py 850-1002).        *)
(* All times are integer milliseconds, as len(AudioSegment) reports them.  *)
(***************************************************************************)
EXTENDS Integers, Sequences, FiniteSets, TLC

VARIABLES
    settings,        \* the settings module read by main()
    pc,              \* position of the run
    line,            \* loop variables (primary, secondary, tags) of the draft loop
    cues_draft,      \* main(): cues_draft
    measured,        \* dur_one / dur_two measured for each draft cue
    t,               \* main(): running cursor t
    cues_src,        \* main(): cues_src / the cues argument of the builders
    pause_rep_ms,    \* build_audio_snapped_to_cues: pause_rep_ms
    out_len,         \* build_audio_snapped_to_cues: len(out)
    seg_lens,        \* len(seg_one) synthesized for each processed cue
    built_lens,      \* len(built) appended for each processed cue
    begins,          \* offset in out at which each cue's built audio begins
    bg_file,         \* len() of the audio in the BG_MUSIC file read by load_bg_music
    mixed_len,       \* main(): len(mixed)
    web,             \* queries for which the image providers return a downloadable hit
    total_audio_ms,  \* len(mixed)
    searched,        \* queries handed to search_and_download_best, per primary cue
    images,          \* result of get_images_for_cues(primary_cues)
    expanded_images, \* main(): expanded_images
    spans,           \* build_slideshow_video_cfr: spans
    frames,          \* -frames:v of each rendered clip
    kinds,           \* "image" or "color" for each rendered clip
    sentence,        \* the text argument: the words of its normalised form
    lang,            \* language code handed to the matcher and the query builder
    scenario_terms,  \* _SCENARIO_TERMS: terms mined from the reference texts, per domain
    hits,            \* _detect_candidates(sentence, lang)
    hits_again,      \* a second invocation in the same process
    hits_other_run,  \* the same invocation in another run of the program
    pairs,           \* sentence_to_query_extras: pairs, before the final pass
    uniq,            \* sentence_to_query_extras: the returned plan
    primary_cat,      \* sentence_to_query_extras: the returned category
    pix_key,         \* _search_both_ranked: a Pixabay key was read
    uns_key,         \* _search_both_ranked: an Unsplash key was read
    response,        \* what each provider's HTTP exchange delivers
    want_n,          \* search_and_download_best: n
    broken,          \* source URLs whose download fails
    provider_calls,  \* the providers whose search function was called, in order
    ranked,          \* what _pixabay_ranked / _unsplash_ranked returned
    ranked_all,      \* _search_both_ranked: ranked_all
    item_no,         \* number of items of ranked_all the download loop has visited
    seen_src,        \* search_and_download_best: seen_src
    attempts,        \* the source URLs handed to _download_image, in order
    out,             \* search_and_download_best: out
    raised,          \* an exception left the called function
    run_no,          \* 1 for the first resolution of the query, 2 for its repetition
    cache_files,     \* the image files present in the cache directory
    gets,            \* the source URLs requested by sess.get in _download_image, in order
    skip_log,        \* the providers named by a "key not found, skipping" message, in order
    queries_left,    \* number of queries the run has still to search
    tts_env,         \* installed modules, keys, files and provider outcomes
    chosen,          \* safe_tts_to_segment: chosen
    tts_trace,       \* the _tts_* functions entered, in order
    tts_result,      \* what safe_tts_to_segment delivered
    raw_lines,       \* main(): raw_lines, each line as line.split("|")
    p_idx,           \* main(): p_idx
    s_idx,           \* main(): s_idx
    logical_lines,   \* main(): logical_lines
    warnings,        \* the lines reported by a [WARN] message, in order
    tts_calls,       \* number of texts handed to _tts
    written,         \* output files written
    exit_code,       \* argument of sys.exit, -1 while main() runs
    cache_kind,      \* the cache the runs share: "image" or "tts"
    wpc,             \* position of each concurrent run in its use of the cache key
    dst_file,        \* content of the cache file of the key: absent, partial, complete
    tmp_file,        \* content of the file <key>.mp3.tmp of _save_bytes
    writes,          \* number of times the cache file of the key was written
    observed         \* what each run got when it used the cache file
matcherVars == <<sentence, lang, scenario_terms, hits, hits_again, hits_other_run,
                 pairs, uniq, primary_cat>>

resolverVars == <<pix_key, uns_key, response, want_n, broken, provider_calls, ranked,
                  ranked_all, item_no, seen_src, attempts, out, raised, run_no,
                  cache_files, gets, skip_log, queries_left>>

ttsVars == <<tts_env, chosen, tts_trace, tts_result>>

cacheVars == <<cache_kind, wpc, dst_file, tmp_file, writes, observed>>

inputVars == <<raw_lines, p_idx, s_idx, logical_lines, warnings, tts_calls, written,
               exit_code>>

\* the variables of the components outside the cue timeline
engineVars == <<matcherVars, resolverVars, ttsVars, inputVars, cacheVars>>

\* the variables of the cue timeline, the audio builder and the slideshow
timelineVars == <<settings, line, cues_draft, measured, t, cues_src, pause_rep_ms,
                  out_len, seg_lens, built_lens, begins, bg_file, mixed_len, web,
                  total_audio_ms, searched, images, expanded_images, spans, frames, kinds>>

vars == <<settings, pc, line, cues_draft, measured, t, cues_src, pause_rep_ms,
          out_len, seg_lens, built_lens, begins, bg_file, mixed_len, web,
          total_audio_ms, searched, images, expanded_images, spans, frames, kinds,
          engineVars>>

draftVars == <<line, cues_draft, measured, t>>
audioVars == <<pause_rep_ms, out_len, seg_lens, built_lens, begins, bg_file, mixed_len>>
videoVars == <<web, total_audio_ms, searched, images, expanded_images, spans, frames, kinds>>

(***************************************************************************)
(* Bounds                                                                  *)
(***************************************************************************)
MaxLines == 2
MaxExternalCues == 1
MaxAudioCues == 2
MaxVideoCues == 2

(***************************************************************************)
(* Program constants                                                       *)
(***************************************************************************)
PlaceholderMs == 800
TranslationGapFloorMs == 1700
AssGridMs == 10
VIDEO_FPS == 30

None == "None"

Max(a, b) == IF a >= b THEN a ELSE b

\* dict.get(key, default)
Get(c, k, d) == IF k \in DOMAIN c THEN c[k] ELSE d

RECURSIVE SeqsUpTo(_, _)
SeqsUpTo(S, n) ==
    IF n = 0 THEN {<<>>}
    ELSE LET shorter == SeqsUpTo(S, n - 1)
         IN  shorter \cup {Append(s, x) : s \in {q \in shorter : Len(q) = n - 1}, x \in S}

(***************************************************************************)
(* Inputs of the draft pass                                                *)
(***************************************************************************)
PrimaryText == "I need a coffee."
SecondaryText == "J'ai besoin d'un cafe."
HashTags == <<"coffee", "cafe">>

\* tag lists of the cues handed to get_images_for_cues: none, two valid
\* tags, one tag that _norm_tag drops next to one it rewrites
VideoTags == {<<>>, HashTags, <<"x", "Cafe!">>}

\* logical_lines entries: (primary_clean, secondary_raw, tags)
LogicalLines ==
    [primary : {PrimaryText}, secondary : {"", SecondaryText}, tags : {<<>>, HashTags}]

\* len() of what safe_tts_to_segment returns (0: an empty segment)
TtsLens == {0, 900, 1204}

SettingsDomain ==
    [primary : {1, 2}, secondary : {2}, pause_rep : {2500}, pause_sent : {400, 2500},
     bilingual : BOOLEAN, external : BOOLEAN, grid : BOOLEAN]

NoLine == [primary |-> "", secondary |-> "", tags |-> <<>>]

\* main(): seg = _tts(...) or _normalize(AudioSegment.silent(duration=800)); len(seg)
\* (an AudioSegment of length 0 is falsy)
TtsOrPlaceholder(raw) == IF raw = 0 THEN PlaceholderMs ELSE raw

\* slip: the inter-repeat gaps are subtracted
WindowMs_gapSubtracted(repeat, dur, pause_rep) == repeat * dur - Max(0, repeat - 1) * pause_rep

\* slip: one gap per repeat instead of one gap between repeats
WindowMs_gapPerRepeat(repeat, dur, pause_rep) == repeat * dur + repeat * pause_rep

\* main(): total_ms = REPEAT_CNT * dur + max(0, REPEAT_CNT - 1) * len(silence_rep)
WindowMs(repeat, dur, pause_rep) == repeat * dur + Max(0, repeat - 1) * pause_rep

\* slip: the floor of the gap before the translation is missing
TranslationGap_noFloor(pause_sent) == pause_sent

\* main(): t += max(len(silence_sent), 1700)
TranslationGap(pause_sent) == Max(pause_sent, TranslationGapFloorMs)

\* slip: the "and secondary" test is dropped
EmitsSecondary_anyText(s, ln) == s.bilingual

\* main(): the secondary cue is drafted only under this condition
EmitsSecondary(s, ln) == s.bilingual /\ ln.secondary # ""

PrimaryCue(s, ln, at, dur) ==
    [start |-> at, end |-> at + WindowMs(s.primary, dur, s.pause_rep),
     text |-> ln.primary, lang |-> "en", repeat |-> s.primary,
     is_primary |-> TRUE, tags |-> ln.tags]

SecondaryCue(s, ln, at, dur) ==
    [start |-> at, end |-> at + WindowMs(s.secondary, dur, s.pause_rep),
     text |-> ln.secondary, lang |-> "fr", repeat |-> s.secondary,
     is_primary |-> FALSE, tags |-> <<>>]

\* number of cues that main() treats as primary: c.get("is_primary", True)
NumPrimary(cues) == Cardinality({i \in 1..Len(cues) : Get(cues[i], "is_primary", TRUE)})

IdleAudio ==
    /\ pause_rep_ms = 0 /\ out_len = 0 /\ seg_lens = <<>>
    /\ built_lens = <<>> /\ begins = <<>>
    /\ bg_file = -1 /\ mixed_len = 0

IdleVideo ==
    /\ web = {} /\ total_audio_ms = 0 /\ searched = <<>> /\ images = <<>>
    /\ expanded_images = <<>> /\ spans = <<>> /\ frames = <<>> /\ kinds = <<>>

IdleDraft ==
    /\ line = NoLine /\ cues_draft = <<>> /\ measured = <<>> /\ t = 0

IdleMatcher ==
    /\ sentence = <<>> /\ lang = "en" /\ scenario_terms = <<>>
    /\ hits = <<>> /\ hits_again = <<>> /\ hits_other_run = <<>>
    /\ pairs = <<>> /\ uniq = <<>> /\ primary_cat = None

IdleResolver ==
    /\ pix_key = FALSE /\ uns_key = FALSE
    /\ response = [p \in {"pixabay", "unsplash"} |-> [status |-> "ok", hits |-> <<>>]]
    /\ want_n = 1 /\ broken = {}
    /\ provider_calls = <<>>
    /\ ranked = [p \in {"pixabay", "unsplash"} |-> <<>>]
    /\ ranked_all = <<>> /\ item_no = 0 /\ seen_src = {} /\ attempts = <<>> /\ out = <<>>
    /\ raised = FALSE
    /\ run_no = 1 /\ cache_files = {} /\ gets = <<>>
    /\ skip_log = <<>> /\ queries_left = 0

IdleTts ==
    /\ tts_env = [pydub |-> TRUE, gTTS |-> TRUE, requests |-> TRUE, provider |-> "gtts",
                  mapped |-> None, api_key |-> FALSE, eleven |-> "ok", gtts |-> "ok",
                  piper_bin |-> FALSE, piper_model |-> FALSE, piper |-> "ok"]
    /\ chosen = None /\ tts_trace = <<>>
    /\ tts_result = [kind |-> "pending", ms |-> 0, normalized |-> FALSE]

IdleInput ==
    /\ raw_lines = <<>> /\ p_idx = 0 /\ s_idx = 1
    /\ logical_lines = <<>> /\ warnings = <<>> /\ tts_calls = 0
    /\ written = {} /\ exit_code = -1

IdleCache ==
    /\ cache_kind = "image" /\ wpc = <<>> /\ dst_file = "absent"
    /\ tmp_file = "absent" /\ writes = 0 /\ observed = <<>>

IdleEngine ==
    /\ IdleCache
    /\ IdleMatcher
    /\ IdleResolver
    /\ IdleTts
    /\ IdleInput

Init ==
    /\ settings \in SettingsDomain
    /\ pc = "draft"
    /\ IdleDraft
    /\ cues_src = <<>>
    /\ IdleAudio
    /\ IdleVideo
    /\ IdleEngine

\* one iteration of "for primary, secondary, tags in logical_lines"
DraftLine ==
    /\ pc = "draft"
    /\ NumPrimary(cues_draft) < MaxLines
    /\ \E ln \in LogicalLines, rawOne \in TtsLens, rawTwo \in TtsLens :
         LET durOne == TtsOrPlaceholder(rawOne)
             durTwo == TtsOrPlaceholder(rawTwo)
             cueP   == PrimaryCue(settings, ln, t, durOne)
             t2     == cueP.end + TranslationGap(settings.pause_sent)
             cueS   == SecondaryCue(settings, ln, t2, durTwo)
         IN  /\ line' = ln
             /\ IF EmitsSecondary(settings, ln)
                THEN /\ cues_draft' = cues_draft \o <<cueP, cueS>>
                     /\ measured' = measured \o <<durOne, durTwo>>
                     /\ t' = cueS.end + settings.pause_sent
                ELSE /\ cues_draft' = Append(cues_draft, cueP)
                     /\ measured' = Append(measured, durOne)
                     /\ t' = t2 + settings.pause_sent
    /\ UNCHANGED <<settings, pc, cues_src, audioVars, videoVars, engineVars>>

(***************************************************************************)
(* Timing source and grid snap                                             *)
(***************************************************************************)
ExternalTimes == {1004, 1006}

\* cues of the external SRT file: timing and text only
ExternalCues == [start : ExternalTimes, end : ExternalTimes, text : {"Hello"}]

\* parse_srt(EXTERNAL_SRT_PATH): whatever the file on disk holds
parse_srt == SeqsUpTo(ExternalCues, MaxExternalCues)

\* subtitles.round_to_ass_grid: nearest multiple of the centisecond grid
round_to_ass_grid(x) == ((x + (AssGridMs \div 2)) \div AssGridMs) * AssGridMs

\* slip: the two keys are crossed
SnapCue_crossed(c) == [c EXCEPT !.start = round_to_ass_grid(c.end), !.end = round_to_ass_grid(c.start)]

\* c["start"] = round_to_ass_grid(c["start"]); c["end"] = round_to_ass_grid(c["end"])
SnapCue(c) == [c EXCEPT !.start = round_to_ass_grid(c.start), !.end = round_to_ass_grid(c.end)]

SnapAll(cues) == [i \in 1..Len(cues) |-> SnapCue(cues[i])]

\* the draft loop is over (logical_lines is never empty here) and
\* READ_TIMING_FROM_EXTERNAL_SRT is set with an existing file; main() never
\* reads cues_draft, t or the loop variables again, the model drops them
UseExternalSrt ==
    /\ pc = "draft"
    /\ NumPrimary(cues_draft) >= 1
    /\ settings.external
    /\ cues_src' \in parse_srt
    /\ pc' = "snap"
    /\ line' = NoLine /\ cues_draft' = <<>> /\ measured' = <<>> /\ t' = 0
    /\ UNCHANGED <<settings, audioVars, videoVars, engineVars>>

\* the draft loop is over and the draft cues are the timing source
UseDraftSrt ==
    /\ pc = "draft"
    /\ NumPrimary(cues_draft) >= 1
    /\ ~settings.external
    /\ cues_src' = cues_draft
    /\ pc' = "snap"
    /\ UNCHANGED <<settings, draftVars, audioVars, videoVars, engineVars>>

\* optional snap of every cue of cues_src to the ASS grid; without an
\* external source cues_src is the very list cues_draft
SnapGrid ==
    /\ pc = "snap"
    /\ cues_src' = IF settings.grid THEN SnapAll(cues_src) ELSE cues_src
    /\ cues_draft' = IF settings.external THEN cues_draft ELSE cues_src'
    /\ pc' = "audio"
    /\ UNCHANGED <<settings, line, measured, t, audioVars, videoVars, engineVars>>

Next == DraftLine \/ UseExternalSrt \/ UseDraftSrt \/ SnapGrid

Spec == Init /\ [][Next]_vars

(***************************************************************************)
(* build_audio_snapped_to_cues (SpecAudio)                                 *)
(***************************************************************************)
DefaultSettings ==
    [primary |-> 1, secondary |-> 2, pause_rep |-> 2500, pause_sent |-> 3500,
     bilingual |-> TRUE, external |-> FALSE, grid |-> TRUE]

AudioTimes == {0, 4300, 9000}

\* cues handed to the builder: draft cues, and cues of an external SRT
\* (no "repeat" key, so cue.get("repeat", 1) applies)
AudioCues ==
    [start : AudioTimes, end : AudioTimes, text : {PrimaryText}, lang : {"en"},
     repeat : {2}, is_primary : {TRUE}, tags : {<<>>}]
    \cup [start : AudioTimes, end : AudioTimes, text : {"Hello"}]

\* len(seg_one) of the utterance synthesized again inside the builder
SegLens == {0, 900, 5000}

\* pause_rep_ms: the default PAUSE_REP and the value main() passes
PauseRepArgs == {800, 2500}

\* for r in range(repeat): if r > 0: built += gap; built += seg_one
RepeatedLen(repeat, seg, gap) == repeat * seg + (repeat - 1) * gap

\* slip: audio longer than the window is not cut
FitLen_padOnly(built_len, target_ms) ==
    IF target_ms > 0 /\ built_len < target_ms THEN target_ms ELSE built_len

\* if target_ms > 0: pad with silence up to target_ms, or cut at target_ms
FitLen(built_len, target_ms) ==
    IF target_ms > 0
    THEN IF built_len < target_ms THEN built_len + (target_ms - built_len)
         ELSE IF built_len > target_ms THEN target_ms
         ELSE built_len
    ELSE built_len

\* bg_file when Path(path).exists() is false
NoFile == -1

\* the BG_MUSIC file: missing, empty, shorter and longer than the speech
BgFiles == {NoFile, 0, 3000, 20000}

\* load_bg_music(path, total_ms, gain_db): len() of the returned track as a
\* sequence of at most one element, <<>> for None
load_bg_music(file_len, total_ms) ==
    IF file_len = NoFile THEN <<>>
    ELSE IF file_len <= 0 THEN <<>>
    ELSE LET reps    == Max(1, (total_ms \div file_len) + 1)
             out_ms  == reps * file_len
         IN  <<IF out_ms > total_ms THEN total_ms ELSE out_ms>>

\* mixed = final_audio.overlay(bg) if bg else final_audio: an empty track is
\* false, and overlay() returns a track as long as final_audio
MixedLen(final_len, bg) ==
    IF bg # <<>> /\ bg[1] > 0 THEN final_len ELSE final_len

InitAudio ==
    /\ settings = DefaultSettings
    /\ pc = "audio_loop"
    /\ IdleDraft
    /\ cues_src \in SeqsUpTo(AudioCues, MaxAudioCues)
    /\ pause_rep_ms \in PauseRepArgs
    /\ out_len = 0 /\ seg_lens = <<>> /\ built_lens = <<>> /\ begins = <<>>
    /\ bg_file = NoFile /\ mixed_len = 0
    /\ IdleVideo
    /\ IdleEngine

\* one iteration of "for idx, cue in enumerate(cues, start=1)"
AudioCue ==
    /\ pc = "audio_loop"
    /\ Len(built_lens) < Len(cues_src)
    /\ \E seg \in SegLens :
         LET cue       == cues_src[Len(built_lens) + 1]
             start_ms  == Get(cue, "start", 0)
             end_ms    == Get(cue, "end", start_ms)
             target_ms == Max(0, end_ms - start_ms)
             repeat    == Max(1, Get(cue, "repeat", 1))
             gap       == Max(0, pause_rep_ms)
             built     == FitLen(RepeatedLen(repeat, seg, gap), target_ms)
             pad       == Max(0, start_ms - out_len)
         IN  /\ seg_lens' = Append(seg_lens, seg)
             /\ built_lens' = Append(built_lens, built)
             /\ begins' = Append(begins, out_len + pad)
             /\ out_len' = out_len + pad + built
    /\ UNCHANGED <<settings, pc, draftVars, cues_src, pause_rep_ms, bg_file, mixed_len,
                   videoVars, engineVars>>

\* return _normalize(out)
AudioReturn ==
    /\ pc = "audio_loop"
    /\ Len(built_lens) = Len(cues_src)
    /\ pc' = "audio_done"
    /\ UNCHANGED <<settings, draftVars, cues_src, audioVars, videoVars, engineVars>>

\* main(): bg = load_bg_music(BG_MUSIC, len(final_audio), BG_GAIN_DB);
\* mixed = final_audio.overlay(bg) if bg else final_audio
MixBgMusic ==
    /\ pc = "audio_done"
    /\ \E file_len \in BgFiles :
          /\ bg_file' = file_len
          /\ mixed_len' = MixedLen(out_len, load_bg_music(file_len, out_len))
    /\ pc' = "mixed"
    /\ UNCHANGED <<settings, draftVars, cues_src, pause_rep_ms, out_len, seg_lens,
                   built_lens, begins, videoVars, engineVars>>

NextAudio == AudioCue \/ AudioReturn \/ MixBgMusic

SpecAudio == InitAudio /\ [][NextAudio]_vars

(***************************************************************************)
(* Per-sentence images and slideshow (SpecVideo)                           *)
(***************************************************************************)
VideoTimes == {0, 4300, 9000}

\* cues handed to the per_sentence branch: tagged and untagged primary
\* cues and secondary cues
VideoCues ==
    {[start |-> s, end |-> s + 2000, text |-> PrimaryText, lang |-> "en",
      repeat |-> 1, is_primary |-> TRUE, tags |-> tg] : s \in VideoTimes, tg \in VideoTags}
    \cup
    {[start |-> s, end |-> s + 2000, text |-> SecondaryText, lang |-> "fr",
      repeat |-> 2, is_primary |-> FALSE, tags |-> <<>>] : s \in VideoTimes}

\* the scenario of three cues that start at 0, 4300 and 9000 ms, each of
\* them primary (tagged or not) or secondary
ScenarioCueLists ==
    {<<a, b, c>> : a \in {x \in VideoCues : x.start = 0},
                   b \in {x \in VideoCues : x.start = 4300},
                   c \in {x \in VideoCues : x.start = 9000}}

\* len(mixed)
TotalAudioLens == {9050, 12000}

\* what the two providers can deliver: the queries with a downloadable hit
WebChoices ==
    {{}, {"coffee cafe"}, {"coffee"}, {"cafe"}, {"coffee people indoors"}, {"object closeup"}}

\* c.get("is_primary", True)
IsPrimary(c) == Get(c, "is_primary", TRUE)

\* _norm_tag on the tags of the model: lower-cased, reduced to [a-z0-9-],
\* "" unless 2 <= len <= 24
NormTag(tg) ==
    CASE tg = "coffee" -> "coffee"
      [] tg = "cafe" -> "cafe"
      [] tg = "Cafe!" -> "cafe"
      [] OTHER -> ""

\* tags_norm = [x for x in (_norm_tag(t) for t in tags) if x]
RECURSIVE NormTags(_)
NormTags(tags) ==
    IF tags = <<>> THEN <<>>
    ELSE LET x == NormTag(Head(tags))
         IN  (IF x = "" THEN <<>> ELSE <<x>>) \o NormTags(Tail(tags))

\* " ".join(tags_norm)
RECURSIVE JoinTags(_)
JoinTags(tags) ==
    IF tags = <<>> THEN ""
    ELSE IF Len(tags) = 1 THEN Head(tags)
    ELSE Head(tags) \o " " \o JoinTags(Tail(tags))

\* sentence_to_query_extras(text)[0] for the sentences of the model, as the
\* function computes it without a reference corpus: (query, category) pairs
QueryPlan(text) ==
    CASE text = "I need a coffee." ->
            << <<"coffee people indoors", None>>, <<"coffee", None>>,
               <<"coffee object closeup", None>>, <<"people indoors", None>>,
               <<"object closeup", None>> >>
      [] text = "Hello" ->
            << <<"hello people indoors", None>>, <<"hello", None>>,
               <<"hello object closeup", None>>, <<"people indoors", None>>,
               <<"object closeup", None>> >>
      [] OTHER ->
            << <<"people indoors", None>>, <<"object closeup", None>> >>

PlanQueries(text) == [i \in 1..Len(QueryPlan(text)) |-> QueryPlan(text)[i][1]]

\* search_and_download_best(query, CACHE_IMG_DIR, n=1, category): the cache
\* file of the best hit (named after the query), or nothing
search_and_download_best(q) == IF q \in web THEN <<q>> ELSE <<>>

\* index of the first query of qs whose search returns an image, 0 if none
RECURSIVE FirstHit(_, _)
FirstHit(qs, i) ==
    IF i > Len(qs) THEN 0
    ELSE IF search_and_download_best(qs[i]) # <<>> THEN i
    ELSE FirstHit(qs, i + 1)

\* slip: the loop has no break, every query is searched
TriedUntilHit_all(qs) == qs

\* the searches of a loop that stops at the first hit
TriedUntilHit(qs) == IF FirstHit(qs, 1) = 0 THEN qs ELSE SubSeq(qs, 1, FirstHit(qs, 1))

HitImage(qs) ==
    IF FirstHit(qs, 1) = 0 THEN None ELSE search_and_download_best(qs[FirstHit(qs, 1)])[1]

\* slip: each tag alone is searched before the joined phrase
TagSearch_singlesFirst(c) ==
    LET tags      == Get(c, "tags", <<>>)
        tags_norm == NormTags(tags)
        joined    == JoinTags(tags_norm)
    IN  IF tags = <<>> \/ tags_norm = <<>>
        THEN [img |-> None, searched |-> <<>>]
        ELSE IF FirstHit(tags_norm, 1) # 0
        THEN [img |-> HitImage(tags_norm), searched |-> TriedUntilHit(tags_norm)]
        ELSE [img |-> HitImage(<<joined>>), searched |-> tags_norm \o <<joined>>]

\* get_images_for_cues, step 1: joined tag phrase, then each tag alone
TagSearch(c) ==
    LET tags      == Get(c, "tags", <<>>)
        tags_norm == NormTags(tags)
        joined    == JoinTags(tags_norm)
    IN  IF tags = <<>> \/ tags_norm = <<>>
        THEN [img |-> None, searched |-> <<>>]
        ELSE IF search_and_download_best(joined) # <<>>
        THEN [img |-> search_and_download_best(joined)[1], searched |-> <<joined>>]
        ELSE [img |-> HitImage(tags_norm), searched |-> <<joined>> \o TriedUntilHit(tags_norm)]

\* get_images_for_cues, body of the loop for one primary cue
ImageForCue(c) ==
    LET byTags == TagSearch(c)
        plan   == PlanQueries(c.text)
    IN  IF byTags.img # None
        THEN byTags
        ELSE [img |-> HitImage(plan), searched |-> byTags.searched \o TriedUntilHit(plan)]

\* get_images_for_cues(cues): result list, with the searches issued per cue
RECURSIVE get_images_for_cues(_, _, _)
get_images_for_cues(cues, i, last_img) ==
    IF i > Len(cues) THEN [result |-> <<>>, searched |-> <<>>]
    ELSE IF IsPrimary(cues[i])
    THEN LET r    == ImageForCue(cues[i])
             rest == get_images_for_cues(cues, i + 1, r.img)
         IN  [result |-> <<r.img>> \o rest.result, searched |-> <<r.searched>> \o rest.searched]
    ELSE LET rest == get_images_for_cues(cues, i + 1, last_img)
         IN  [result |-> <<last_img>> \o rest.result, searched |-> <<<<>>>> \o rest.searched]

\* slip: a secondary cue takes the next image of the list as well
RECURSIVE ExpandImages_popAll(_, _, _, _)
ExpandImages_popAll(cues, i, imgs, last_img) ==
    IF i > Len(cues) THEN <<>>
    ELSE LET img == IF imgs # <<>> THEN Head(imgs) ELSE None
         IN  <<img>> \o ExpandImages_popAll(cues, i + 1, IF imgs # <<>> THEN Tail(imgs) ELSE imgs, img)

\* main(): the loop that builds expanded_images
RECURSIVE ExpandImages(_, _, _, _)
ExpandImages(cues, i, imgs, last_img) ==
    IF i > Len(cues) THEN <<>>
    ELSE IF IsPrimary(cues[i])
    THEN LET img == IF imgs # <<>> THEN Head(imgs) ELSE None
         IN  <<img>> \o ExpandImages(cues, i + 1, IF imgs # <<>> THEN Tail(imgs) ELSE imgs, img)
    ELSE <<last_img>> \o ExpandImages(cues, i + 1, imgs, last_img)

\* slip: the last span ends at the last cue's own end
compute_visual_spans_ownEnd(cues, total) ==
    [i \in 1..Len(cues) |->
        IF i < Len(cues)
        THEN <<cues[i].start, Max(cues[i].start, cues[i + 1].start)>>
        ELSE <<cues[i].start, cues[i].end>>]

compute_visual_spans(cues, total) ==
    [i \in 1..Len(cues) |->
        IF i < Len(cues)
        THEN <<cues[i].start, Max(cues[i].start, cues[i + 1].start)>>
        ELSE <<cues[i].start, total>>]

\* Python round(num / den) for num >= 0, den > 0: ties go to the even integer
PyRound(num, den) ==
    LET q == num \div den
        r == num % den
    IN  IF 2 * r < den THEN q
        ELSE IF 2 * r > den THEN q + 1
        ELSE IF q % 2 = 0 THEN q ELSE q + 1

\* slip: int() instead of round()
FrameCount_truncated(start_ms, end_ms, fps) ==
    Max(1, (Max(0, end_ms - start_ms) * fps) \div 1000)

\* dur_ms = max(0, end_ms - start_ms); frames = max(1, round(dur_ms * r_fps / 1000.0))
FrameCount(start_ms, end_ms, fps) ==
    Max(1, PyRound(Max(0, end_ms - start_ms) * fps, 1000))

\* slip: the "img and" test is dropped, every clip is rendered from an image
ClipKind_noNoneTest(img) == "image"

\* "if img and Path(img).exists()": a still of the image (the file that
\* was just downloaded or found in the cache), else the solid colour clip
ClipKind(img) == IF img # None THEN "image" ELSE "color"

InitVideo ==
    /\ settings = DefaultSettings
    /\ pc = "images"
    /\ IdleDraft
    /\ cues_src \in SeqsUpTo(VideoCues, MaxVideoCues) \cup ScenarioCueLists
    /\ IdleAudio
    /\ web \in WebChoices
    /\ total_audio_ms \in TotalAudioLens
    /\ searched = <<>> /\ images = <<>> /\ expanded_images = <<>>
    /\ spans = <<>> /\ frames = <<>> /\ kinds = <<>>
    /\ IdleEngine

\* main(): primary_cues = [...]; images = get_images_for_cues(primary_cues)
GetImages ==
    /\ pc = "images"
    /\ LET r == get_images_for_cues(SelectSeq(cues_src, IsPrimary), 1, None)
       IN  /\ images' = r.result
           /\ searched' = r.searched
    /\ pc' = "expand"
    /\ UNCHANGED <<settings, draftVars, cues_src, audioVars, web, total_audio_ms,
                   expanded_images, spans, frames, kinds, engineVars>>

\* main(): expanded_images, one entry per cue of cues_src
Expand ==
    /\ pc = "expand"
    /\ expanded_images' = ExpandImages(cues_src, 1, images, None)
    /\ pc' = "slideshow"
    /\ UNCHANGED <<settings, draftVars, cues_src, audioVars, web, total_audio_ms,
                   searched, images, spans, frames, kinds, engineVars>>

\* build_slideshow_video_cfr: one clip per (span, image) pair of the zip
BuildSlideshow ==
    /\ pc = "slideshow"
    /\ LET sp == compute_visual_spans(cues_src, total_audio_ms)
           n  == IF Len(sp) <= Len(expanded_images) THEN Len(sp) ELSE Len(expanded_images)
       IN  /\ spans' = sp
           /\ frames' = [i \in 1..n |-> FrameCount(sp[i][1], sp[i][2], VIDEO_FPS)]
           /\ kinds' = [i \in 1..n |-> ClipKind(expanded_images[i])]
    /\ pc' = "video_done"
    /\ UNCHANGED <<settings, draftVars, cues_src, audioVars, web, total_audio_ms,
                   searched, images, expanded_images, engineVars>>

NextVideo == GetImages \/ Expand \/ BuildSlideshow

SpecVideo == InitVideo /\ [][NextVideo]_vars

(***************************************************************************)
(* Lexicon Matcher (SpecMatcher) and Query Builder (SpecQuery)             *)
(*                                                                         *)
(* A sentence is the list of words that _normalize_text(text).split()      *)
(* yields; a surface form or a query is the string of its words joined by  *)
(* single blanks.                                                          *)
(***************************************************************************)
MaxWords == 3

\* NLPConfig
MAX_QUERY_TOKENS == 6
TRIGRAM_MATCH_THRESHOLD == <<62, 100>>

Vocabulary ==
    {"the", "milk", "coffee", "cough", "syrup", "menu", "bill", "check",
     "esspresso", "boarding"}

\* a sentence that names four lexicon entries
LongSentences == {<<"cough", "syrup", "menu", "bill">>}

Sentences == SeqsUpTo(Vocabulary, MaxWords) \cup LongSentences

Langs == {"en", "fr"}

Min(S) == CHOOSE x \in S : \A y \in S : x <= y

Range(s) == {s[i] : i \in 1..Len(s)}

\* every sequence that enumerates the set S once
RECURSIVE Orderings(_)
Orderings(S) ==
    IF S = {} THEN {<<>>}
    ELSE UNION {{<<x>> \o s : s \in Orderings(S \ {x})} : x \in S}

\* " ".join(words)
RECURSIVE Join(_)
Join(words) ==
    IF words = <<>> THEN ""
    ELSE IF Len(words) = 1 THEN words[1]
    ELSE words[1] \o " " \o Join(Tail(words))

\* members of STOPWORDS_EN / STOPWORDS_FR (the other members are no words
\* of the model)
STOPWORDS_EN == {"the", "a", "an", "and", "need", "want", "please"}
STOPWORDS_FR == {"je", "le", "la", "un", "une", "besoin"}

_language_stopwords(lg) == IF lg = "fr" THEN STOPWORDS_FR ELSE STOPWORDS_EN

\* [w for w in words if len(w) > 2 and w not in sw]
_tokenize(words, lg) ==
    LET keep(w) == Len(w) > 2 /\ w \notin _language_stopwords(lg)
    IN  SelectSeq(words, keep)

\* single-word members of MODIFIER_PHRASES; no modifier phrase is a
\* substring of another word of the model, so t.replace(m, " ") removes
\* exactly these words
MODIFIER_PHRASES == {"milk", "sugar", "ice", "blue", "black", "white", "large", "medium", "small"}

_clean_modifiers(words) ==
    LET keep(w) == w \notin MODIFIER_PHRASES
    IN  SelectSeq(words, keep)

\* the concepts of LEXICON kept in the model, in declaration order
LexiconKeys == <<"espresso", "menu", "bill", "cough syrup", "cough">>

LEXICON(key) ==
    CASE key = "espresso"    -> [en |-> <<"espresso">>, fr |-> <<"expresso", "espresso">>]
      [] key = "menu"        -> [en |-> <<"menu">>, fr |-> <<"menu", "carte">>]
      [] key = "bill"        -> [en |-> <<"bill", "check">>, fr |-> <<"addition">>]
      [] key = "cough syrup" -> [en |-> <<"cough syrup">>, fr |-> <<"sirop contre la toux">>]
      [] key = "cough"       -> [en |-> <<"cough">>, fr |-> <<"toux">>]

\* _normalize_text(v).split() for the surface forms above
PhraseWords(v) ==
    CASE v = "cough syrup" -> <<"cough", "syrup">>
      [] v = "sirop contre la toux" -> <<"sirop", "contre", "la", "toux">>
      [] OTHER -> <<v>>

\* offset of token i in " ".join(tokens)
RECURSIVE CharOffset(_, _)
CharOffset(tokens, i) ==
    IF i = 1 THEN 0 ELSE CharOffset(tokens, i - 1) + Len(tokens[i - 1]) + 1

NoMatch == -1

\* re.search(rf"\b{v_norm}\b", joined): start of the leftmost whole-word
\* occurrence, NoMatch if there is none
re_search(v, tokens) ==
    LET pw == PhraseWords(v)
        at == {i \in 1..(Len(tokens) - Len(pw) + 1) : SubSeq(tokens, i, i + Len(pw) - 1) = pw}
    IN  IF at = {} THEN NoMatch ELSE CharOffset(tokens, Min(at))

\* _tri_sim(tok, v_norm) as <<|A & B|, |A | B|>> of the two trigram sets,
\* tabulated from _trigrams for the words of the model; the pairs left out
\* share at most two trigrams (similarity below 0.16)
_tri_sim(tok, v) ==
    CASE tok = v -> <<1, 1>>
      [] tok = "esspresso" /\ v = "espresso" -> <<9, 11>>
      [] tok = "esspresso" /\ v = "expresso" -> <<7, 13>>
      [] tok \in {"cough", "syrup"} /\ v = "cough syrup" -> <<6, 14>>
      [] OTHER -> <<0, 1>>

\* vlist: the forms of the requested language, then the English bridge
Vlist(key, code) ==
    LEXICON(key)[code] \o (IF code # "en" THEN LEXICON(key).en ELSE <<>>)

\* pass 1: whole-word match of any form
FoundExact(key, code, tokens) ==
    \E k \in 1..Len(Vlist(key, code)) : re_search(Vlist(key, code)[k], tokens) # NoMatch

\* pass 2: best trigram similarity of any token with any form
FoundFuzzy(key, code, tokens) ==
    \E k \in 1..Len(Vlist(key, code)), j \in 1..Len(tokens) :
        LET s == _tri_sim(tokens[j], Vlist(key, code)[k])
        IN  /\ s[1] > 0
            /\ s[1] * TRIGRAM_MATCH_THRESHOLD[2] >= TRIGRAM_MATCH_THRESHOLD[1] * s[2]

\* the list hits before the final sort: pass 1, and pass 2 if pass 1 is empty
HitList(words, lg) ==
    LET tokens == _tokenize(words, lg)
        exact(key) == FoundExact(key, lg, tokens)
        fuzzy(key) == FoundFuzzy(key, lg, tokens)
        pass1 == SelectSeq(LexiconKeys, exact)
    IN  IF pass1 # <<>> THEN pass1 ELSE SelectSeq(LexiconKeys, fuzzy)

\* first_idx(key): start of the first listed phrase that occurs
RECURSIVE FirstListedMatch(_, _)
FirstListedMatch(phrases, tokens) ==
    IF phrases = <<>> THEN 1000000000
    ELSE IF re_search(Head(phrases), tokens) # NoMatch THEN re_search(Head(phrases), tokens)
    ELSE FirstListedMatch(Tail(phrases), tokens)

first_idx(key, code, tokens) ==
    FirstListedMatch(LEXICON(key)[code] \o LEXICON(key).en, tokens)

\* sorted(s, key=...): stable, elements with equal keys keep the order of s
RECURSIVE sorted(_, _)
sorted(s, key) ==
    IF s = <<>> THEN <<>>
    ELSE LET rest == sorted(SubSeq(s, 1, Len(s) - 1), key)
             x    == s[Len(s)]
             n    == Cardinality({i \in 1..Len(rest) : key[rest[i]] <= key[x]})
         IN  SubSeq(rest, 1, n) \o <<x>> \o SubSeq(rest, n + 1, Len(rest))

\* _detect_candidates(text, lang): sorted(set(hits), key=first_idx), where
\* set_order is the order in which this process iterates over set(hits)
\* (it follows the string hashes, which differ from run to run)
_detect_candidates(words, lg, set_order) ==
    LET tokens == _tokenize(words, lg)
    IN  sorted(set_order, [k \in Range(set_order) |-> first_idx(k, lg, tokens)])

InitMatcher ==
    /\ settings = DefaultSettings
    /\ pc = "detect"
    /\ IdleDraft
    /\ cues_src = <<>>
    /\ IdleAudio
    /\ IdleVideo
    /\ IdleCache
    /\ sentence \in Sentences
    /\ lang \in Langs
    /\ scenario_terms = <<>>
    /\ hits = <<>> /\ hits_again = <<>> /\ hits_other_run = <<>>
    /\ pairs = <<>> /\ uniq = <<>> /\ primary_cat = None
    /\ IdleResolver
    /\ IdleTts
    /\ IdleInput

\* two invocations on the same input in one process: the set of hit keys
\* is iterated in the same order both times
DetectTwice ==
    /\ pc = "detect"
    /\ \E set_order \in Orderings(Range(HitList(sentence, lang))) :
          /\ hits' = _detect_candidates(sentence, lang, set_order)
          /\ hits_again' = _detect_candidates(sentence, lang, set_order)
    /\ pc' = "other_run"
    /\ UNCHANGED <<timelineVars, cacheVars, resolverVars, ttsVars, inputVars, sentence, lang,
                   scenario_terms, hits_other_run,
                   pairs, uniq, primary_cat>>

\* the same invocation in a separate run of the program
DetectOtherRun ==
    /\ pc = "other_run"
    /\ \E set_order \in Orderings(Range(HitList(sentence, lang))) :
          hits_other_run' = _detect_candidates(sentence, lang, set_order)
    /\ pc' = "detect_done"
    /\ UNCHANGED <<timelineVars, cacheVars, resolverVars, ttsVars, inputVars, sentence, lang,
                   scenario_terms, hits, hits_again,
                   pairs, uniq, primary_cat>>

NextMatcher == DetectTwice \/ DetectOtherRun

SpecMatcher == InitMatcher /\ [][NextMatcher]_vars

(***************************************************************************)
(* Query Builder (SpecQuery)                                               *)
(***************************************************************************)
\* NLPConfig.MAX_FALLBACKS
MAX_FALLBACKS == 8

\* QUERY_TEMPLATES: concept -> (query template, category)
QUERY_TEMPLATES(key) ==
    CASE key = "espresso"    -> <<"espresso coffee cup", "food">>
      [] key = "menu"        -> <<"restaurant menu on table", "food">>
      [] key = "bill"        -> <<"restaurant bill on table", "food">>
      [] key = "cough syrup" -> <<"cough syrup bottle pharmacy shelf", "health">>
      [] key = "cough"       -> <<"woman coughing medical", "health">>

_classify(canonical) ==
    CASE canonical = "espresso"    -> "food"
      [] canonical = "cough syrup" -> "pharmacy"
      [] canonical = "cough"       -> "doctor"
      [] OTHER                     -> "generic"

_domain_anchor(domain) ==
    CASE domain = "food"       -> <<"cafe interior", "coffee shop interior", "barista making coffee">>
      [] domain = "pharmacy"   -> <<"pharmacy interior shelves", "medicine counter pharmacy">>
      [] domain = "airport"    -> <<"modern airport interior", "airport departure hall">>
      [] domain = "bank"       -> <<"bank counter interior", "atm machine">>
      [] domain = "clothing"   -> <<"clothing store interior", "fashion display">>
      [] domain = "directions" -> <<"city street view", "town square plaza">>
      [] domain = "doctor"     -> <<"clinic waiting room", "doctor with patient">>
      [] domain = "hotel"      -> <<"hotel reception front desk", "hotel lobby">>
      [] domain = "phone"      -> <<"electronics store interior", "phone shop display">>
      [] domain = "post"       -> <<"post office counter", "mail shipping counter">>
      [] OTHER                 -> <<"people indoors", "object closeup">>

AllDomains ==
    {"food", "pharmacy", "airport", "bank", "clothing", "directions", "doctor",
     "hotel", "phone", "post", "generic"}

\* terms mined from the reference texts of a domain, sorted
MinedTerms == <<"order", "table", "today", "water">>

\* _SCENARIO_TERMS after _load_scenario_terms_once: no reference text
\* found, or reference texts for every domain
ScenarioTermChoices == {[d \in AllDomains |-> <<>>], [d \in AllDomains |-> MinedTerms]}

\* sorted(list(_SCENARIO_TERMS.get(domain, set())))[:20]
_scenario_hints_for(domain) ==
    SubSeq(scenario_terms[domain], 1, IF Len(scenario_terms[domain]) < 20
                                      THEN Len(scenario_terms[domain]) ELSE 20)

\* s[:n]
Take(s, n) == SubSeq(s, 1, IF Len(s) < n THEN Len(s) ELSE n)

\* sentence_to_query: the keyword -> domain list, tested with "kw in
\* heur_text" (no keyword is a proper substring of a word of the model)
HeurKeywords ==
    << <<"airport", "airport">>, <<"gate", "airport">>, <<"boarding", "airport">>,
       <<"passport", "airport">>, <<"bank", "bank">>, <<"transfer", "bank">>,
       <<"pin", "bank">>, <<"parcel", "post">>, <<"post", "post">>, <<"stamp", "post">>,
       <<"pharmacy", "pharmacy">>, <<"thermometer", "pharmacy">>, <<"vitamin", "pharmacy">>,
       <<"hotel", "hotel">>, <<"towel", "hotel">>, <<"pillow", "hotel">>,
       <<"sim", "phone">>, <<"smartphone", "phone">>, <<"charger", "phone">>,
       <<"jacket", "clothing">>, <<"dress", "clothing">>, <<"belt", "clothing">>,
       <<"shoes", "clothing">>, <<"bridge", "directions">>, <<"map", "directions">>,
       <<"street", "directions">>, <<"fever", "doctor">>, <<"cough", "doctor">>,
       <<"throat", "doctor">> >>

\* sentence_to_query_extras: the chain of "any(w in tokens for w in [...])"
TokenDomains ==
    << <<{"passport", "gate", "airport", "boarding"}, "airport">>,
       <<{"pharmacy", "thermometer", "vitamin"}, "pharmacy">>,
       <<{"bank", "transfer", "pin"}, "bank">>,
       <<{"jacket", "dress", "belt", "shoes", "fitting"}, "clothing">>,
       <<{"bus", "bridge", "street", "map", "square"}, "directions">>,
       <<{"fever", "cough", "throat", "stomach"}, "doctor">>,
       <<{"hotel", "towel", "pillow", "invoice"}, "hotel">>,
       <<{"sim", "smartphone", "charger", "cable", "case"}, "phone">>,
       <<{"parcel", "stamp", "post"}, "post">> >>

RECURSIVE GuessByKeyword(_, _)
GuessByKeyword(kws, tokens) ==
    IF kws = <<>> THEN "generic"
    ELSE IF Head(kws)[1] \in Range(tokens) THEN Head(kws)[2]
    ELSE GuessByKeyword(Tail(kws), tokens)

RECURSIVE GuessByToken(_, _)
GuessByToken(rows, tokens) ==
    IF rows = <<>> THEN "generic"
    ELSE IF Head(rows)[1] \cap Range(tokens) # {} THEN Head(rows)[2]
    ELSE GuessByToken(Tail(rows), tokens)

\* sentence_to_query(text, lang)
sentence_to_query(words, lg, set_order) ==
    LET text_norm == _clean_modifiers(words)
        tokens    == _tokenize(text_norm, lg)
        found     == _detect_candidates(text_norm, lg, set_order)
        domain    == GuessByKeyword(HeurKeywords, tokens)
        anchors   == _domain_anchor(domain)
        hints     == _scenario_hints_for(domain)
        phrase    == Join(Take(tokens, MAX_QUERY_TOKENS) \o Take(anchors, 1))
        hinted    == IF hints # <<>>
                     THEN (IF phrase # "" THEN phrase \o " " \o hints[1] ELSE hints[1])
                     ELSE phrase
    IN  IF found # <<>> THEN QUERY_TEMPLATES(found[1])[1]
        ELSE IF hinted # "" THEN hinted ELSE anchors[1]

\* slip: no fallback is ever added to the plan
AppendNew_never(ps, e) == ps

\* "if (q, cat) not in pairs: pairs.append((q, cat))"
AppendNew(ps, e) == IF e \in Range(ps) THEN ps ELSE Append(ps, e)

\* for c in hits[:3]: the concept's own template and category
RECURSIVE AppendTemplates(_, _)
AppendTemplates(ps, keys) ==
    IF keys = <<>> THEN ps
    ELSE AppendTemplates(AppendNew(ps, QUERY_TEMPLATES(Head(keys))), Tail(keys))

\* q = f"{eng_like} {a}".strip() if eng_like else a
WithEngLike(eng_like, a) == IF eng_like # "" THEN eng_like \o " " \o a ELSE a

RECURSIVE AppendQueries(_, _, _)
AppendQueries(ps, qs, cat) ==
    IF qs = <<>> THEN ps
    ELSE AppendQueries(AppendNew(ps, <<Head(qs), cat>>), Tail(qs), cat)

\* slip: the cap is never reached
CapReached_never(plan) == FALSE

\* "if len(uniq) >= (1 + NLPConfig.MAX_FALLBACKS): break"
CapReached(plan) == Len(plan) >= 1 + MAX_FALLBACKS

\* key = (q.strip().lower(), cat); every query of the model is built from
\* lower-case normalised words, which strip() and lower() leave as they are
PlanKey(e) == <<e[1], e[2]>>

\* the final pass over pairs: first-seen keys, no blank query, capped
RECURSIVE UniqLoop(_, _, _)
UniqLoop(ps, i, acc) ==
    IF i > Len(ps) THEN acc
    ELSE LET seen == {PlanKey(acc[k]) : k \in 1..Len(acc)}
             next == IF PlanKey(ps[i]) \notin seen /\ ps[i][1] # ""
                     THEN Append(acc, ps[i]) ELSE acc
         IN  IF CapReached(next) THEN next ELSE UniqLoop(ps, i + 1, next)

\* tokens that match [a-z0-9]+$ (every word of the model does), joined
EngLike(words, lg) == Join(_tokenize(_clean_modifiers(words), lg))

\* sentence_to_query_extras(text, lang)
sentence_to_query_extras(words, lg, set_order) ==
    LET primary  == sentence_to_query(words, lg, set_order)
        tokens   == _tokenize(_clean_modifiers(words), lg)
        found    == _detect_candidates(tokens, lg, set_order)
        cat      == IF found # <<>> THEN QUERY_TEMPLATES(found[1])[2] ELSE None
        domain   == IF found # <<>> THEN _classify(found[1])
                    ELSE GuessByToken(TokenDomains, tokens)
        eng_like == EngLike(words, lg)
        anchors  == _domain_anchor(domain)
        hints    == _scenario_hints_for(domain)
        p1 == <<<<primary, cat>>>>
        p2 == AppendTemplates(p1, Take(found, 3))
        p3 == IF eng_like # "" THEN AppendNew(p2, <<eng_like, cat>>) ELSE p2
        p4 == AppendQueries(p3, [k \in 1..Len(anchors) |-> WithEngLike(eng_like, anchors[k])], cat)
        p5 == AppendQueries(p4, [k \in 1..Len(Take(hints, 3)) |-> WithEngLike(eng_like, hints[k])], cat)
        p6 == AppendQueries(p5, anchors \o hints, cat)
    IN  [pairs |-> p6, uniq |-> UniqLoop(p6, 1, <<>>), primary_cat |-> cat, hits |-> found]

InitQuery ==
    /\ settings = DefaultSettings
    /\ pc = "plan"
    /\ IdleDraft
    /\ cues_src = <<>>
    /\ IdleAudio
    /\ IdleVideo
    /\ IdleCache
    /\ sentence \in Sentences
    /\ lang \in Langs
    /\ scenario_terms \in ScenarioTermChoices
    /\ hits = <<>> /\ hits_again = <<>> /\ hits_other_run = <<>>
    /\ pairs = <<>> /\ uniq = <<>> /\ primary_cat = None
    /\ IdleResolver
    /\ IdleTts
    /\ IdleInput

\* one call of sentence_to_query_extras(sentence, lang); both calls of
\* _detect_candidates inside it see the same tokens in the same process
BuildPlan ==
    /\ pc = "plan"
    /\ \E set_order \in Orderings(Range(HitList(_clean_modifiers(sentence), lang))) :
          LET r == sentence_to_query_extras(sentence, lang, set_order)
          IN  /\ pairs' = r.pairs
              /\ uniq' = r.uniq
              /\ primary_cat' = r.primary_cat
              /\ hits' = r.hits
    /\ pc' = "plan_done"
    /\ UNCHANGED <<timelineVars, cacheVars, resolverVars, ttsVars, inputVars, sentence, lang,
                   scenario_terms, hits_again, hits_other_run>>

NextQuery == BuildPlan

SpecQuery == InitQuery /\ [][NextQuery]_vars

(***************************************************************************)
(* Provider Rankers and Visual Resolver (SpecResolver)                     *)
(***************************************************************************)
MaxHits == 2

\* items of the "hits" / "results" array of a response: a JSON object with
\* a source URL and the score its tags earn, an object without any URL,
\* and a value that is not an object
HitItems ==
    {[object |-> TRUE, src |-> "u1", score |-> 1],
     [object |-> TRUE, src |-> "u2", score |-> 2],
     [object |-> TRUE, src |-> None, score |-> 1],
     [object |-> FALSE, src |-> None, score |-> 0]}

\* where the exchange inside the try block ends: sess.get raises,
\* raise_for_status raises, r.json raises, the document is not an object
\* (data.get raises), the array is null, or an array is delivered
ResponseStatus == {"network_error", "http_error", "bad_json", "not_object", "hits_null", "ok"}

Responses ==
    {[status |-> st, hits |-> <<>>] : st \in ResponseStatus \ {"ok"}}
    \cup {[status |-> "ok", hits |-> h] : h \in SeqsUpTo(HitItems, MaxHits)}

\* the except branch of the provider functions: return []
Caught(resp) == resp.status \in {"network_error", "http_error", "bad_json", "not_object"}

\* the loop over the array runs outside the try block: iterating null and
\* calling .get on a value that is not an object raise
LoopRaises(resp) ==
    \/ resp.status = "hits_null"
    \/ \E i \in 1..Len(resp.hits) : ~resp.hits[i].object

\* slip: the list is left in the order of arrival
SortByScore_unsorted(items) == items

\* ranked.sort(key=lambda x: x["score"], reverse=True)
SortByScore(items) == sorted(items, [it \in Range(items) |-> 0 - it.score])

\* the loop of a provider function: items without a source URL are
\* skipped, the others become candidates, sorted by descending score
RankHits(resp, provider) ==
    LET usable(it) == it.src # None
        kept == SelectSeq(resp.hits, usable)
        cand == [i \in 1..Len(kept) |->
                    [provider |-> provider, score |-> kept[i].score, src |-> kept[i].src]]
    IN  SortByScore(cand)

\* _pixabay_ranked(query, key, category)
_pixabay_ranked(resp) ==
    IF Caught(resp) THEN [raises |-> FALSE, ranked |-> <<>>]
    ELSE IF LoopRaises(resp) THEN [raises |-> TRUE, ranked |-> <<>>]
    ELSE [raises |-> FALSE, ranked |-> RankHits(resp, "pixabay")]

\* _unsplash_ranked(query, key)
_unsplash_ranked(resp) ==
    IF Caught(resp) THEN [raises |-> FALSE, ranked |-> <<>>]
    ELSE IF LoopRaises(resp) THEN [raises |-> TRUE, ranked |-> <<>>]
    ELSE [raises |-> FALSE, ranked |-> RankHits(resp, "unsplash")]

\* slip: no source URL counts as seen
SeenBefore_never(src, seen) == FALSE

\* if src in seen_src: continue
SeenBefore(src, seen) == src \in seen

\* dst: the file named md5(provider | query | src) of the one query
FileOf(item) == [provider |-> item.provider, src |-> item.src]

\* slip: the cache is never consulted
CacheHit_never(file) == FALSE

\* dst.exists()
CacheHit(file) == file \in cache_files

\* _download_image: the file as a one-element list, the empty list for
\* None; a cached file is returned without a request
_download_image(item) ==
    IF CacheHit(FileOf(item)) THEN <<FileOf(item)>>
    ELSE IF item.src \in broken THEN <<>>
    ELSE <<FileOf(item)>>

InitResolver ==
    /\ settings = DefaultSettings
    /\ pc = "pixabay"
    /\ IdleDraft
    /\ cues_src = <<>>
    /\ IdleAudio
    /\ IdleVideo
    /\ IdleCache
    /\ IdleMatcher
    /\ IdleTts
    /\ IdleInput
    /\ pix_key \in BOOLEAN /\ uns_key \in BOOLEAN
    /\ response \in [{"pixabay", "unsplash"} -> Responses]
    /\ want_n \in {1, 2}
    /\ broken \in {{}, {"u1"}}
    /\ provider_calls = <<>>
    /\ ranked = [p \in {"pixabay", "unsplash"} |-> <<>>]
    /\ ranked_all = <<>> /\ item_no = 0 /\ seen_src = {} /\ attempts = <<>> /\ out = <<>>
    /\ raised = FALSE
    /\ run_no = 1 /\ cache_files = {} /\ gets = <<>>
    /\ skip_log = <<>> /\ queries_left = 0

\* _search_both_ranked, first half: Pixabay is asked when a key was read
PixabaySearch ==
    /\ pc = "pixabay"
    /\ IF ~pix_key
       THEN /\ pc' = "unsplash"
            /\ skip_log' = Append(skip_log, "pixabay")
            /\ UNCHANGED <<provider_calls, ranked, ranked_all, raised>>
       ELSE LET r == _pixabay_ranked(response["pixabay"])
            IN  /\ provider_calls' = Append(provider_calls, "pixabay")
                /\ UNCHANGED skip_log
                /\ raised' = r.raises
                /\ ranked' = [ranked EXCEPT !["pixabay"] = r.ranked]
                /\ ranked_all' = ranked_all \o r.ranked
                /\ pc' = IF r.raises THEN "search_raised" ELSE "unsplash"
    /\ UNCHANGED <<timelineVars, cacheVars, matcherVars, ttsVars, inputVars, pix_key, uns_key,
                   response, want_n, broken, item_no, seen_src, attempts, out, run_no,
                   cache_files, gets, queries_left>>

\* _search_both_ranked, second half: Unsplash is asked when a key was
\* read, the merged list is sorted; search_and_download_best returns []
\* when it is empty
UnsplashSearch ==
    /\ pc = "unsplash"
    /\ IF ~uns_key
       THEN /\ ranked_all' = SortByScore(ranked_all)
            /\ pc' = IF ranked_all = <<>> THEN "search_done" ELSE "download"
            /\ skip_log' = Append(skip_log, "unsplash")
            /\ UNCHANGED <<provider_calls, ranked, raised>>
       ELSE LET r == _unsplash_ranked(response["unsplash"])
            IN  /\ provider_calls' = Append(provider_calls, "unsplash")
                /\ UNCHANGED skip_log
                /\ raised' = r.raises
                /\ ranked' = [ranked EXCEPT !["unsplash"] = r.ranked]
                /\ ranked_all' = SortByScore(ranked_all \o r.ranked)
                /\ pc' = IF r.raises THEN "search_raised"
                         ELSE IF ranked_all \o r.ranked = <<>> THEN "search_done"
                         ELSE "download"
    /\ UNCHANGED <<timelineVars, cacheVars, matcherVars, ttsVars, inputVars, pix_key, uns_key,
                   response, want_n, broken, item_no, seen_src, attempts, out, run_no,
                   cache_files, gets, queries_left>>

\* one iteration of "for item in ranked_all" of search_and_download_best
DownloadNext ==
    /\ pc = "download"
    /\ LET item == ranked_all[item_no + 1]
           p    == _download_image(item)
           last == item_no + 1 = Len(ranked_all)
       IN  /\ item_no' = item_no + 1
           /\ IF SeenBefore(item.src, seen_src)
              THEN /\ pc' = IF last THEN "search_done" ELSE "download"
                   /\ UNCHANGED <<seen_src, attempts, out, cache_files, gets>>
              ELSE /\ seen_src' = seen_src \cup {item.src}
                   /\ attempts' = Append(attempts, item.src)
                   /\ gets' = IF CacheHit(FileOf(item)) THEN gets ELSE Append(gets, item.src)
                   /\ cache_files' = cache_files \cup Range(p)
                   /\ out' = out \o p
                   /\ pc' = IF Len(out') >= want_n \/ last THEN "search_done" ELSE "download"
    /\ UNCHANGED <<timelineVars, cacheVars, matcherVars, ttsVars, inputVars, pix_key, uns_key,
                   response, want_n, broken, provider_calls, ranked, ranked_all, raised,
                   run_no, skip_log, queries_left>>

\* the same query is resolved again by a later run: same keys, same
\* provider answers, the cache directory as the first run left it
RepeatSearch ==
    /\ pc = "search_done"
    /\ run_no = 1
    /\ run_no' = 2
    /\ pc' = "pixabay"
    /\ provider_calls' = <<>>
    /\ ranked' = [p \in {"pixabay", "unsplash"} |-> <<>>]
    /\ ranked_all' = <<>> /\ item_no' = 0 /\ seen_src' = {} /\ attempts' = <<>>
    /\ out' = <<>> /\ gets' = <<>> /\ skip_log' = <<>>
    /\ UNCHANGED <<timelineVars, cacheVars, matcherVars, ttsVars, inputVars, pix_key, uns_key,
                   response, want_n, broken, raised, cache_files, queries_left>>

NextResolver == PixabaySearch \/ UnsplashSearch \/ DownloadNext \/ RepeatSearch

SpecResolver == InitResolver /\ [][NextResolver]_vars

(***************************************************************************)
(* The queries of one run and the provider credentials (SpecCredentials)   *)
(***************************************************************************)
MaxQueries == 2

\* what a provider answers to one query of the run
QueryAnswers ==
    {[status |-> "ok", hits |-> <<>>],
     [status |-> "ok", hits |-> <<[object |-> TRUE, src |-> "u1", score |-> 1]>>],
     [status |-> "ok", hits |-> <<[object |-> TRUE, src |-> "u2", score |-> 2]>>],
     [status |-> "network_error", hits |-> <<>>],
     [status |-> "hits_null", hits |-> <<>>]}

\* the else branches of _search_both_ranked: the "key not found,
\* skipping" message, printed by every call for a provider without a key
SkipMessages(p, key) == IF key THEN <<>> ELSE <<p>>

InitCredentials ==
    /\ settings = DefaultSettings
    /\ pc = "queries"
    /\ IdleDraft
    /\ cues_src = <<>>
    /\ IdleAudio
    /\ IdleVideo
    /\ IdleCache
    /\ IdleMatcher
    /\ IdleTts
    /\ IdleInput
    /\ pix_key \in BOOLEAN /\ uns_key \in BOOLEAN
    /\ response = [p \in {"pixabay", "unsplash"} |-> [status |-> "ok", hits |-> <<>>]]
    /\ want_n = 1 /\ broken = {}
    /\ provider_calls = <<>>
    /\ ranked = [p \in {"pixabay", "unsplash"} |-> <<>>]
    /\ ranked_all = <<>> /\ item_no = 0 /\ seen_src = {} /\ attempts = <<>> /\ out = <<>>
    /\ raised = FALSE
    /\ run_no = 1 /\ cache_files = {} /\ gets = <<>>
    /\ skip_log = <<>>
    /\ queries_left \in 1..MaxQueries

\* _search_both_ranked(query, category) for the next query of the run
SearchBothRanked ==
    /\ pc = "queries"
    /\ queries_left > 0
    /\ \E answers \in [{"pixabay", "unsplash"} -> QueryAnswers] :
          LET pix == IF pix_key THEN _pixabay_ranked(answers["pixabay"])
                     ELSE [raises |-> FALSE, ranked |-> <<>>]
              uns == IF uns_key /\ ~pix.raises THEN _unsplash_ranked(answers["unsplash"])
                     ELSE [raises |-> FALSE, ranked |-> <<>>]
              fails == pix.raises \/ uns.raises
          IN  /\ response' = answers
              /\ provider_calls' = provider_calls
                                      \o (IF pix_key THEN <<"pixabay">> ELSE <<>>)
                                      \o (IF uns_key /\ ~pix.raises THEN <<"unsplash">> ELSE <<>>)
              /\ skip_log' = skip_log
                                \o SkipMessages("pixabay", pix_key)
                                \o (IF pix.raises THEN <<>> ELSE SkipMessages("unsplash", uns_key))
              /\ ranked' = [p \in {"pixabay", "unsplash"} |->
                               IF p = "pixabay" THEN pix.ranked ELSE uns.ranked]
              /\ ranked_all' = IF fails THEN <<>> ELSE SortByScore(pix.ranked \o uns.ranked)
              /\ raised' = fails
              /\ queries_left' = queries_left - 1
              /\ pc' = IF fails THEN "search_raised"
                       ELSE IF queries_left = 1 THEN "queries_done" ELSE "queries"
    /\ UNCHANGED <<timelineVars, cacheVars, matcherVars, ttsVars, inputVars, pix_key, uns_key, want_n,
                   broken, item_no, seen_src, attempts, out, run_no, cache_files, gets>>

NextCredentials == SearchBothRanked

SpecCredentials == InitCredentials /\ [][NextCredentials]_vars

(***************************************************************************)
(* Speech synthesis (SpecTts)                                              *)
(***************************************************************************)
\* len() of a synthesized or cached speech segment
SpeechMs == 1204

\* _normalize(AudioSegment.silent(duration=800))
Placeholder == [kind |-> "silence", ms |-> 800, normalized |-> TRUE]

\* _normalize(seg) of synthesized speech, _load_audio_from_file of cached speech
Speech == [kind |-> "speech", ms |-> SpeechMs, normalized |-> TRUE]

\* an exception leaves the function
Raised == [kind |-> "raised", ms |-> 0, normalized |-> FALSE]

\* the modules that were importable, the provider named by the caller and
\* by TTS_PROVIDER_MAP, the ElevenLabs key, the Piper files, and how each
\* provider's synthesis ends ("cached": the cache file exists and loads)
TtsEnvs ==
    [pydub : BOOLEAN, gTTS : BOOLEAN, requests : BOOLEAN,
     provider : {"gtts", "elevenlabs", "piper", "espeak"},
     mapped : {None, "elevenlabs", "piper"},
     api_key : BOOLEAN,
     eleven : {"cached", "ok", "http_error", "exception"},
     gtts : {"cached", "ok", "exception"},
     piper_bin : BOOLEAN, piper_model : BOOLEAN,
     piper : {"cached", "ok", "no_output", "exception"}]

\* _resolve_provider_for_lang: the entry of TTS_PROVIDER_MAP, else the hint
_resolve_provider_for_lang(env) ==
    IF env.mapped # None THEN env.mapped ELSE env.provider

\* slip: the except branch of _tts_gtts is missing
_tts_gtts_uncaught(env) ==
    IF ~env.pydub THEN Raised
    ELSE IF ~env.gTTS THEN Placeholder
    ELSE IF env.gtts = "exception" THEN Raised
    ELSE Speech

\* _tts_gtts(text, lang_code); AudioSegment.silent on a missing pydub raises
_tts_gtts(env) ==
    IF ~env.pydub THEN Raised
    ELSE IF ~env.gTTS THEN Placeholder
    ELSE IF env.gtts = "exception" THEN Placeholder
    ELSE Speech

\* _tts_piper(text, lang_code)
_tts_piper(env) ==
    IF ~env.pydub THEN Raised
    ELSE IF ~env.piper_bin THEN Placeholder
    ELSE IF ~env.piper_model THEN Placeholder
    ELSE IF env.piper \in {"cached", "ok"} THEN Speech
    ELSE Placeholder

InitTts ==
    /\ settings = DefaultSettings
    /\ pc = "tts"
    /\ IdleDraft
    /\ cues_src = <<>>
    /\ IdleAudio
    /\ IdleVideo
    /\ IdleCache
    /\ IdleMatcher
    /\ IdleResolver
    /\ IdleInput
    /\ tts_env \in TtsEnvs
    /\ chosen = None /\ tts_trace = <<>> /\ tts_result = [kind |-> "pending", ms |-> 0, normalized |-> FALSE]

\* safe_tts_to_segment up to the call of a provider function
SafeTts ==
    /\ pc = "tts"
    /\ IF ~tts_env.pydub
       THEN /\ tts_result' = Raised
            /\ pc' = "tts_raised"
            /\ UNCHANGED chosen
       ELSE /\ chosen' = _resolve_provider_for_lang(tts_env)
            /\ pc' = CASE chosen' = "piper" -> "piper"
                       [] chosen' = "elevenlabs" /\ tts_env.api_key -> "elevenlabs"
                       [] OTHER -> "gtts"
            /\ UNCHANGED tts_result
    /\ UNCHANGED <<timelineVars, cacheVars, matcherVars, resolverVars, inputVars, tts_env, tts_trace>>

\* return _tts_piper(text, lang_code)
TtsPiper ==
    /\ pc = "piper"
    /\ tts_trace' = Append(tts_trace, "piper")
    /\ tts_result' = _tts_piper(tts_env)
    /\ pc' = "tts_done"
    /\ UNCHANGED <<timelineVars, cacheVars, matcherVars, resolverVars, inputVars, tts_env, chosen>>

\* _tts_elevenlabs(text, lang_code, api_key) up to its return or its call
\* of _tts_gtts
TtsElevenlabs ==
    /\ pc = "elevenlabs"
    /\ tts_trace' = Append(tts_trace, "elevenlabs")
    /\ IF ~tts_env.requests
       THEN tts_result' = Placeholder /\ pc' = "tts_done"
       ELSE IF tts_env.eleven \in {"cached", "ok"}
       THEN tts_result' = Speech /\ pc' = "tts_done"
       ELSE pc' = "gtts" /\ UNCHANGED tts_result
    /\ UNCHANGED <<timelineVars, cacheVars, matcherVars, resolverVars, inputVars, tts_env, chosen>>

\* return _tts_gtts(text, lang_code)
TtsGtts ==
    /\ pc = "gtts"
    /\ tts_trace' = Append(tts_trace, "gtts")
    /\ tts_result' = _tts_gtts(tts_env)
    /\ pc' = IF tts_result'.kind = "raised" THEN "tts_raised" ELSE "tts_done"
    /\ UNCHANGED <<timelineVars, cacheVars, matcherVars, resolverVars, inputVars, tts_env, chosen>>

NextTts == SafeTts \/ TtsPiper \/ TtsElevenlabs \/ TtsGtts

SpecTts == InitTts /\ [][NextTts]_vars

(***************************************************************************)
(* Input parsing (SpecInput)                                               *)
(***************************************************************************)
MaxRawLines == 2

\* exit_code while main() has not called sys.exit
NoExit == -1

\* [p.strip() for p in line.split("|")] of the raw lines of the model: a
\* line without a separator, lines of two and three columns, a line with
\* a hashtag, and the line "|"
RawLineChoices ==
    {<<"Hello">>, <<"Hello", "Bonjour">>, <<"Hello", "Bonjour", "Hallo">>,
     <<"Hello #cafe", "Bonjour">>, <<"", "">>}

\* PRIMARY_LANG_IDX / SECONDARY_LANG_IDX: two different columns
ColumnIndexes == {ix \in (0..2) \X (0..2) : ix[1] # ix[2]}

\* max_idx = max(p_idx, s_idx)
MaxIdx == Max(p_idx, s_idx)

\* _safe_part(parts, idx), idx counted from 0
_safe_part(parts, idx) == IF idx + 1 <= Len(parts) THEN parts[idx + 1] ELSE ""

\* _extract_hashtags_and_clean on the primary texts of the model
_extract_hashtags_and_clean(str) ==
    CASE str = "Hello #cafe" -> [cleaned |-> "Hello", tags |-> <<"cafe">>]
      [] str = "" -> [cleaned |-> "", tags |-> <<>>]
      [] OTHER -> [cleaned |-> str, tags |-> <<>>]

\* def sentence_to_query_extras(text: str, lang: str): the parameters, none
\* of which has a default value
ExtrasParams == <<"text", "lang">>

\* the call in main(): sentence_to_query_extras(primary_clean, topic=...,
\* level=LEVEL), one positional argument and two keyword arguments
AutoTagCall == [positional |-> 1, keywords |-> {"topic", "level"}]

\* Python's argument binding: TypeError for a keyword that is no parameter
\* and for a parameter that is left without a value
RaisesTypeError(params, call) ==
    \/ call.keywords \ Range(params) # {}
    \/ \E k \in (call.positional + 1)..Len(params) : params[k] \notin call.keywords

\* what the loop "for w in (extra or [])" keeps of the returned tuple
\* (q_pairs, primary_cat) for the primary texts of the model: str() of the
\* pair list is longer than 23 characters and is dropped, str(None) is
\* kept as "none"
CandidateWords(str) == <<"none">>

\* the "local auto-tags fallback" of main(): the call is inside
\* "try: ... except Exception: pass", so a TypeError leaves tags empty
AutoTags(str) ==
    IF RaisesTypeError(ExtrasParams, AutoTagCall) THEN <<>>
    ELSE Take(CandidateWords(str), 6)

\* the body of "for line in raw_lines" for a line that is not skipped: the
\* columns are chosen, hashtags are extracted, and a line without hashtags
\* goes through the automatic tag fallback
ParsedLine(parts) ==
    LET max_idx == MaxIdx
        primary_raw   == IF Len(parts) > max_idx THEN _safe_part(parts, p_idx) ELSE parts[1]
        secondary_raw == IF Len(parts) > max_idx THEN _safe_part(parts, s_idx) ELSE parts[2]
        ex == _extract_hashtags_and_clean(primary_raw)
        primary_clean == IF ex.cleaned # "" THEN ex.cleaned ELSE primary_raw
    IN  [primary |-> primary_clean,
         secondary |-> secondary_raw,
         tags |-> IF ex.tags # <<>> THEN ex.tags ELSE AutoTags(primary_clean)]

\* the else branch of the loop: the line is skipped
Malformed(parts) == ~(Len(parts) > MaxIdx) /\ ~(Len(parts) >= 2)

\* number of raw lines the loop has handled
LinesSeen ==
    Len(logical_lines) + Cardinality({i \in 1..Len(warnings) : warnings[i].kind = "malformed"})

\* slip: the test of logical_lines is missing
NoValidLines_never(ll) == FALSE

\* if not logical_lines
NoValidLines(ll) == ll = <<>>

\* number of texts the draft loop hands to _tts
RECURSIVE TtsTexts(_)
TtsTexts(ll) ==
    IF ll = <<>> THEN 0
    ELSE 1 + (IF settings.bilingual /\ Head(ll).secondary # "" THEN 1 ELSE 0) + TtsTexts(Tail(ll))

InitInput ==
    /\ settings = DefaultSettings
    /\ pc = "parse"
    /\ IdleDraft
    /\ cues_src = <<>>
    /\ IdleAudio
    /\ IdleVideo
    /\ IdleCache
    /\ IdleMatcher
    /\ IdleResolver
    /\ IdleTts
    /\ raw_lines \in SeqsUpTo(RawLineChoices, MaxRawLines)
    /\ \E ix \in ColumnIndexes : p_idx = ix[1] /\ s_idx = ix[2]
    /\ logical_lines = <<>> /\ warnings = <<>> /\ tts_calls = 0
    /\ written = {} /\ exit_code = NoExit

\* one iteration of "for line in raw_lines"
ParseLine ==
    /\ pc = "parse"
    /\ LinesSeen < Len(raw_lines)
    /\ LET parts == raw_lines[LinesSeen + 1]
       IN  IF Malformed(parts)
           THEN /\ warnings' = Append(warnings, [kind |-> "malformed", line |-> parts])
                /\ UNCHANGED logical_lines
           ELSE /\ logical_lines' = Append(logical_lines, ParsedLine(parts))
                /\ UNCHANGED warnings
    /\ UNCHANGED <<timelineVars, cacheVars, pc, matcherVars, resolverVars, ttsVars, raw_lines, p_idx,
                   s_idx, tts_calls, written, exit_code>>

\* after the loop: "if not logical_lines: print(...); sys.exit(0)"
CheckLines ==
    /\ pc = "parse"
    /\ LinesSeen = Len(raw_lines)
    /\ IF NoValidLines(logical_lines)
       THEN /\ warnings' = Append(warnings, [kind |-> "no_valid_lines", line |-> <<>>])
            /\ exit_code' = 0
            /\ pc' = "exited"
       ELSE /\ pc' = "synthesis"
            /\ UNCHANGED <<warnings, exit_code>>
    /\ UNCHANGED <<timelineVars, cacheVars, matcherVars, resolverVars, ttsVars, raw_lines, p_idx,
                   s_idx, logical_lines, tts_calls, written>>

\* the draft loop "for primary, secondary, tags in logical_lines"
Synthesize ==
    /\ pc = "synthesis"
    /\ tts_calls' = TtsTexts(logical_lines)
    /\ pc' = "write_srt"
    /\ UNCHANGED <<timelineVars, cacheVars, matcherVars, resolverVars, ttsVars, raw_lines, p_idx,
                   s_idx, logical_lines, warnings, written, exit_code>>

\* write_srt_from_cues(cues_draft, OUT_SRT), the first output file
WriteSrt ==
    /\ pc = "write_srt"
    /\ written' = written \cup {"srt"}
    /\ pc' = "input_done"
    /\ UNCHANGED <<timelineVars, cacheVars, matcherVars, resolverVars, ttsVars, raw_lines, p_idx,
                   s_idx, logical_lines, warnings, tts_calls, exit_code>>

NextInput == ParseLine \/ CheckLines \/ Synthesize \/ WriteSrt

SpecInput == InitInput /\ [][NextInput]_vars

(***************************************************************************)
(* Concurrent runs on one cache key (SpecCache)                            *)
(*                                                                         *)
(* Every request of /api/run starts its own main.py process; nothing       *)
(* keeps two runs from using the cache directories at the same time.  The  *)
(* runs of the model resolve the same key: dst of _download_image, or      *)
(* cache_mp3 of _tts_gtts with _save_bytes.                                *)
(***************************************************************************)
MaxWorkers == 2

Workers == 1..MaxWorkers

CacheKinds == {"image", "tts"}

\* the file the run writes to: dst.write_bytes(...) in _download_image,
\* tmp.write_bytes(data) in _save_bytes
WriteTarget(kind) == IF kind = "image" THEN "dst" ELSE "tmp"

\* content of a file when a writer closes it: complete unless another
\* writer has the same file open, having truncated it
Closed(others_writing) == IF others_writing THEN "partial" ELSE "complete"

InitCache ==
    /\ settings = DefaultSettings
    /\ pc = "cache"
    /\ IdleDraft
    /\ cues_src = <<>>
    /\ IdleAudio
    /\ IdleVideo
    /\ IdleMatcher
    /\ IdleResolver
    /\ IdleTts
    /\ IdleInput
    /\ cache_kind \in CacheKinds
    /\ wpc = [w \in Workers |-> "idle"]
    /\ dst_file = "absent" /\ tmp_file = "absent"
    /\ writes = 0
    /\ observed = [w \in Workers |-> "nothing"]

\* api_run: subprocess.Popen([sys.executable, "main.py"], ...), no lock
api_run(w) ==
    /\ wpc[w] = "idle"
    /\ wpc' = [wpc EXCEPT ![w] = "check"]
    /\ UNCHANGED <<cache_kind, dst_file, tmp_file, writes, observed>>
    /\ UNCHANGED <<timelineVars, pc, matcherVars, resolverVars, ttsVars, inputVars>>

\* "if not dst.exists():" / "if cache_mp3.exists():" -- a file that is
\* being written exists
CacheLookup(w) ==
    /\ wpc[w] = "check"
    /\ wpc' = [wpc EXCEPT ![w] = IF dst_file # "absent" THEN "read" ELSE "fetch"]
    /\ UNCHANGED <<cache_kind, dst_file, tmp_file, writes, observed>>
    /\ UNCHANGED <<timelineVars, pc, matcherVars, resolverVars, ttsVars, inputVars>>

\* img = sess.get(src, ...); img.raise_for_status() / tts.write_to_fp(buf):
\* the bytes are in memory, or the request fails and the run gets None
\* (800 ms of silence from _tts_gtts) without touching the cache
Fetch(w) ==
    /\ wpc[w] = "fetch"
    /\ \E ok \in BOOLEAN :
          IF ok
          THEN /\ wpc' = [wpc EXCEPT ![w] = "write"]
               /\ UNCHANGED observed
          ELSE /\ wpc' = [wpc EXCEPT ![w] = "done"]
               /\ observed' = [observed EXCEPT ![w] = "failed"]
    /\ UNCHANGED <<cache_kind, dst_file, tmp_file, writes>>
    /\ UNCHANGED <<timelineVars, pc, matcherVars, resolverVars, ttsVars, inputVars>>

\* write_bytes, first half: open(..., "wb") truncates the file
WriteOpen(w) ==
    /\ wpc[w] = "write"
    /\ IF WriteTarget(cache_kind) = "dst"
       THEN /\ dst_file' = "partial"
            /\ writes' = writes + 1
            /\ UNCHANGED tmp_file
       ELSE /\ tmp_file' = "partial"
            /\ UNCHANGED <<dst_file, writes>>
    /\ wpc' = [wpc EXCEPT ![w] = "writing"]
    /\ UNCHANGED <<cache_kind, observed>>
    /\ UNCHANGED <<timelineVars, pc, matcherVars, resolverVars, ttsVars, inputVars>>

\* write_bytes, second half: the bytes are written and the file is closed;
\* a tmp file that another run has renamed meanwhile is the cache file now
WriteClose(w) ==
    /\ wpc[w] = "writing"
    /\ LET others == \E v \in Workers \ {w} : wpc[v] = "writing"
       IN  IF WriteTarget(cache_kind) = "dst"
           THEN /\ dst_file' = Closed(others)
                /\ UNCHANGED tmp_file
                /\ wpc' = [wpc EXCEPT ![w] = "read"]
           ELSE /\ IF tmp_file = "absent"
                   THEN dst_file' = Closed(others) /\ UNCHANGED tmp_file
                   ELSE tmp_file' = Closed(others) /\ UNCHANGED dst_file
                /\ wpc' = [wpc EXCEPT ![w] = "replace"]
    /\ UNCHANGED <<cache_kind, writes, observed>>
    /\ UNCHANGED <<timelineVars, pc, matcherVars, resolverVars, ttsVars, inputVars>>

\* _save_bytes: tmp.replace(p); FileNotFoundError when another run has
\* renamed the shared tmp file already (_tts_gtts catches it and returns
\* 800 ms of silence), else the run goes on with the bytes it holds
Replace(w) ==
    /\ wpc[w] = "replace"
    /\ IF tmp_file = "absent"
       THEN /\ observed' = [observed EXCEPT ![w] = "raised"]
            /\ UNCHANGED <<dst_file, tmp_file, writes>>
       ELSE /\ dst_file' = tmp_file
            /\ tmp_file' = "absent"
            /\ writes' = writes + 1
            /\ observed' = [observed EXCEPT ![w] = "own"]
    /\ wpc' = [wpc EXCEPT ![w] = "done"]
    /\ UNCHANGED cache_kind
    /\ UNCHANGED <<timelineVars, pc, matcherVars, resolverVars, ttsVars, inputVars>>

\* the cache file is used: ffmpeg reads the image returned by
\* _download_image, _load_audio_from_file reads cache_mp3
ReadCached(w) ==
    /\ wpc[w] = "read"
    /\ observed' = [observed EXCEPT ![w] = dst_file]
    /\ wpc' = [wpc EXCEPT ![w] = "done"]
    /\ UNCHANGED <<cache_kind, dst_file, tmp_file, writes>>
    /\ UNCHANGED <<timelineVars, pc, matcherVars, resolverVars, ttsVars, inputVars>>

NextCache ==
    \E w \in Workers :
        \/ api_run(w)
        \/ CacheLookup(w)
        \/ Fetch(w)
        \/ WriteOpen(w)
        \/ WriteClose(w)
        \/ Replace(w)
        \/ ReadCached(w)

SpecCache == InitCache /\ [][NextCache]_vars

(***************************************************************************)
(* Properties of the draft timeline (Spec)                                 *)
(***************************************************************************)

\* C3: the draft cue sequence is in nondecreasing start order and every
\* draft cue has end >= start.
C3_DraftSortedWellFormed ==
    \A i \in 1..Len(cues_draft) :
        /\ cues_draft[i].end >= cues_draft[i].start
        /\ i < Len(cues_draft) => cues_draft[i].start <= cues_draft[i + 1].start

C3_Witness ==
    /\ pc = "draft"
    /\ Len(cues_draft) >= 3
    /\ cues_draft[1].start < cues_draft[2].start
    /\ cues_draft[2].start < cues_draft[3].start

\* the repeat count main() uses for a cue of the given role
RoleRepeat(c) == IF c.is_primary THEN settings.primary ELSE settings.secondary

\* C4: every cue drafted by one loop iteration starts at the cursor, has the
\* window repeat*d + (repeat-1)*pause_rep for its own measured duration d and
\* its own role's repeat count, and the cursor advances by exactly the
\* drafted windows (plus the two inter-sentence gaps).
C4_WindowIsMeasured ==
    [][Len(cues_draft') > Len(cues_draft) =>
        LET n == Len(cues_draft)
            m == Len(cues_draft')
            win(i) == RoleRepeat(cues_draft'[i]) * measured'[i]
                        + (RoleRepeat(cues_draft'[i]) - 1) * settings.pause_rep
        IN  /\ \A i \in (n + 1)..m :
                  /\ cues_draft'[i].repeat = RoleRepeat(cues_draft'[i])
                  /\ cues_draft'[i].end - cues_draft'[i].start = win(i)
            /\ cues_draft'[n + 1].start = t
            /\ cues_draft'[n + 1].is_primary
            /\ m > n + 1 => ~cues_draft'[m].is_primary
            /\ t' - t = win(n + 1) + (IF m > n + 1 THEN win(m) ELSE 0)
                          + Max(settings.pause_sent, 1700) + settings.pause_sent
    ]_vars

\* the scenario of the specification: repeat 2, d = 900, gap 2500 -> 4300 ms
C4_Witness ==
    /\ pc = "draft"
    /\ \E i \in 1..Len(cues_draft) :
          /\ cues_draft[i].is_primary
          /\ cues_draft[i].repeat = 2
          /\ measured[i] = 900
          /\ settings.pause_rep = 2500
          /\ cues_draft[i].end - cues_draft[i].start = 4300
    /\ \E j \in 1..Len(cues_draft) : ~cues_draft[j].is_primary /\ measured[j] = 1204

\* C5: the grid-snap pass leaves no cue with end < start that had
\* end > start before the pass.
C5_SnapNeverInverts ==
    [][(pc = "snap" /\ settings.grid) =>
        \A i \in 1..Len(cues_src) :
            cues_src[i].end > cues_src[i].start => cues_src'[i].end >= cues_src'[i].start
    ]_vars

\* a snapped timeline in which a 1204 ms utterance was moved onto the grid
C5_Witness ==
    /\ pc = "audio"
    /\ settings.grid
    /\ ~settings.external
    /\ \E i \in 1..Len(cues_src) :
          /\ measured[i] = 1204
          /\ cues_src[i].repeat = 1
          /\ cues_src[i].end % AssGridMs = 0
          /\ cues_src[i].end > cues_src[i].start
          /\ cues_src[i].end - cues_src[i].start # 1204

\* C6: the first draft cue is primary, every secondary cue directly follows
\* a primary cue (so at most one secondary lies between two primaries), and
\* a secondary cue is drafted only in bilingual mode for a non-empty
\* secondary text.
C6_RoleStructure ==
    LET n == Len(cues_draft)
    IN  /\ n >= 1 => cues_draft[1].is_primary
        /\ \A i \in 2..n : ~cues_draft[i].is_primary => cues_draft[i - 1].is_primary
        /\ (n >= 1 /\ ~cues_draft[n].is_primary) =>
                (settings.bilingual /\ line.secondary # "" /\ cues_draft[n].text = line.secondary)
        /\ (n >= 1 /\ cues_draft[n].is_primary /\ settings.bilingual) => line.secondary = ""

C6_Witness ==
    /\ pc = "draft"
    /\ settings.bilingual
    /\ Len(cues_draft) = 3
    /\ cues_draft[1].is_primary
    /\ ~cues_draft[2].is_primary
    /\ cues_draft[3].is_primary
    /\ line.secondary = ""

\* C7: with an external timing source the cue count and every cue's text,
\* lang, tags, repeat count and role are those of the draft cues.
C7_ExternalKeepsDraftFields ==
    [][(pc = "draft" /\ pc' = "snap" /\ settings.external) =>
        /\ Len(cues_src') = Len(cues_draft)
        /\ \A i \in 1..Len(cues_src') :
              /\ Get(cues_src'[i], "text", None) = cues_draft[i].text
              /\ Get(cues_src'[i], "lang", None) = cues_draft[i].lang
              /\ Get(cues_src'[i], "tags", None) = cues_draft[i].tags
              /\ Get(cues_src'[i], "repeat", None) = cues_draft[i].repeat
              /\ Get(cues_src'[i], "is_primary", None) = cues_draft[i].is_primary
    ]_vars

(***************************************************************************)
(* Properties of the audio builder (SpecAudio)                             *)
(***************************************************************************)

\* C1: for every cue with target end - start >= 0 (0 included) the audio
\* built for the cue is exactly end - start ms long.
C1_SegmentFitExact ==
    \A i \in 1..Len(built_lens) :
        cues_src[i].end - cues_src[i].start >= 0 =>
            built_lens[i] = cues_src[i].end - cues_src[i].start

\* the cue list is sorted by start and no window runs into the next start
SortedDisjoint(cues) ==
    \A i \in 1..(Len(cues) - 1) :
        /\ cues[i].start <= cues[i + 1].start
        /\ cues[i].end <= cues[i + 1].start

\* C2: for a cue list sorted by start with end_i <= start_(i+1), the audio
\* of every cue begins at exactly cue.start ms of the output.
C2_CueBeginsAtStart ==
    SortedDisjoint(cues_src) =>
        \A i \in 1..Len(begins) : begins[i] = cues_src[i].start

(***************************************************************************)
(* Properties of the slideshow (SpecVideo)                                 *)
(***************************************************************************)

\* C8 as claimed: one span per cue, span i = [cue_i.start, cue_(i+1).start)
\* for every cue but the last, the last span ends at the total audio length.
C8_SpanEndsAtNextStart ==
    pc = "video_done" =>
        /\ Len(spans) = Len(cues_src)
        /\ \A i \in 1..Len(spans) :
              /\ spans[i][1] = cues_src[i].start
              /\ i < Len(spans) => spans[i][2] = cues_src[i + 1].start
              /\ i = Len(spans) => spans[i][2] = total_audio_ms

\* C8 (amended): one span per cue, in cue order; span i begins at
\* cue_i.start and ends at max(cue_i.start, cue_(i+1).start) for every cue
\* but the last; the last span ends at the total audio length.
C8_SpanEndsAtClampedNextStart ==
    pc = "video_done" =>
        /\ Len(spans) = Len(cues_src)
        /\ \A i \in 1..Len(spans) :
              /\ spans[i][1] = cues_src[i].start
              /\ i < Len(spans) =>
                    spans[i][2] = Max(cues_src[i].start, cues_src[i + 1].start)
              /\ i = Len(spans) => spans[i][2] = total_audio_ms

\* the scenario of the specification: starts 0, 4300, 9000 and 12000 ms of audio
C8_Witness ==
    /\ pc = "video_done"
    /\ total_audio_ms = 12000
    /\ Len(cues_src) = 3
    /\ cues_src[1].start = 0 /\ cues_src[2].start = 4300 /\ cues_src[3].start = 9000
    /\ spans = << <<0, 4300>>, <<4300, 9000>>, <<9000, 12000>> >>
    /\ cues_src[3].end # 12000

\* C9 as claimed: every span of duration >= 0 (0 included) is rendered with
\* exactly round(duration_ms * fps / 1000) frames.
C9_FramesExactlyRounded ==
    pc = "video_done" =>
        \A i \in 1..Len(frames) :
            spans[i][2] >= spans[i][1] =>
                frames[i] = PyRound((spans[i][2] - spans[i][1]) * VIDEO_FPS, 1000)

\* C9 (amended): every span is rendered, as an image or a solid colour
\* clip alike, with round(duration_ms * fps / 1000) frames when that is at
\* least 1, and with 1 frame otherwise (in particular for an empty span).
C9_FramesRoundedAtLeastOne ==
    pc = "video_done" =>
        /\ Len(frames) = Len(spans)
        /\ \A i \in 1..Len(frames) :
              LET dur == IF spans[i][2] >= spans[i][1] THEN spans[i][2] - spans[i][1] ELSE 0
                  rnd == PyRound(dur * VIDEO_FPS, 1000)
              IN  frames[i] = IF rnd >= 1 THEN rnd ELSE 1

\* 129, 141 and 90 frames for 4300, 4700 and 3000 ms at 30 fps, with an
\* image clip and a colour clip among them
C9_Witness ==
    /\ pc = "video_done"
    /\ frames = <<129, 141, 90>>
    /\ \E i \in 1..3 : kinds[i] = "image"
    /\ \E i \in 1..3 : kinds[i] = "color"

\* every query get_images_for_cues can issue for the cue
CueQueries(c) ==
    LET tags_norm == NormTags(Get(c, "tags", <<>>))
        plan      == PlanQueries(c.text)
    IN  (IF tags_norm = <<>> THEN {} ELSE {JoinTags(tags_norm)})
            \cup {tags_norm[k] : k \in 1..Len(tags_norm)}
            \cup {plan[k] : k \in 1..Len(plan)}

\* position of cue i among the primary cues
PrimaryRank(cues, i) == Cardinality({j \in 1..i : IsPrimary(cues[j])})

C16_DetectDeterministic ==
    /\ pc \in {"other_run", "detect_done"} => hits_again = hits
    /\ pc = "detect_done" => hits_other_run = hits

\* position of a concept in the declaration order of LEXICON
DeclIndex(key) == CHOOSE i \in 1..Len(LexiconKeys) : LexiconKeys[i] = key

\* earliest offset at which any surface form of the concept occurs, or the
\* rank of a concept without an offset
EarliestOffset(key, code, tokens) ==
    LET offs == {re_search(Vlist(key, code)[k], tokens) : k \in 1..Len(Vlist(key, code))} \ {NoMatch}
    IN  IF offs = {} THEN 1000000000 ELSE Min(offs)

\* C17: the hits are ordered by the earliest offset at which any surface
\* form of the concept occurs in the normalised sentence, and concepts
\* with equal offset (all fuzzy-only hits included) are in declaration order.
C17_OrderedByEarliestOffset ==
    pc \in {"other_run", "detect_done"} =>
        \A i, j \in 1..Len(hits) :
            i < j =>
                LET tokens == _tokenize(sentence, lang)
                    oi == EarliestOffset(hits[i], lang, tokens)
                    oj == EarliestOffset(hits[j], lang, tokens)
                IN  \/ oi < oj
                    \/ oi = oj /\ DeclIndex(hits[i]) < DeclIndex(hits[j])

(***************************************************************************)
(* Properties of the Query Builder (SpecQuery)                             *)
(***************************************************************************)

\* the curated anchor phrases of all domains
AnchorPhrases == UNION {Range(_domain_anchor(d)) : d \in AllDomains}

\* an entry built from a domain anchor: the anchor phrase itself, or the
\* anchor phrase behind the literal tokens of the sentence
IsAnchorFallback(q) ==
    \E a \in AnchorPhrases : q = a \/ q = EngLike(sentence, lang) \o " " \o a

\* C11: for every sentence (the empty one and those without a lexicon hit
\* included) and every language the returned plan has at least one entry,
\* an entry with a non-blank query, and at least one domain-anchor fallback.
C11_PlanNeverEmpty ==
    pc = "plan_done" =>
        /\ Len(uniq) >= 1
        /\ \E i \in 1..Len(uniq) : uniq[i][1] # ""
        /\ \E i \in 1..Len(uniq) : IsAnchorFallback(uniq[i][1])

\* the plan of the empty sentence: the two anchors of the generic domain
C11_Witness ==
    /\ pc = "plan_done"
    /\ sentence = <<>>
    /\ scenario_terms["generic"] = <<>>
    /\ uniq = << <<"people indoors", None>>, <<"object closeup", None>> >>

\* index of the first entry of ps with the key of e
FirstSeen(ps, e) == Min({k \in 1..Len(ps) : PlanKey(ps[k]) = PlanKey(e)})

\* C12: no two entries of the plan have the same (lowercased query,
\* category) key, the entries are in the order in which their keys were
\* first produced, and the plan has at most 1 + MAX_FALLBACKS entries.
C12_PlanDedupedCapped ==
    pc = "plan_done" =>
        /\ Len(uniq) <= 1 + MAX_FALLBACKS
        /\ \A i \in 1..Len(uniq) : \E k \in 1..Len(pairs) : pairs[k] = uniq[i]
        /\ \A i, j \in 1..Len(uniq) :
              i < j => /\ PlanKey(uniq[i]) # PlanKey(uniq[j])
                       /\ FirstSeen(pairs, uniq[i]) < FirstSeen(pairs, uniq[j])

\* more than 1 + MAX_FALLBACKS candidate pairs, cut to a plan of exactly 9
C12_Witness ==
    /\ pc = "plan_done"
    /\ Len(pairs) > 1 + MAX_FALLBACKS
    /\ Len(uniq) = 9

(***************************************************************************)
(* Properties of the search order of get_images_for_cues (SpecVideo)       *)
(***************************************************************************)

\* the tag queries of a cue in the order of the claim: the joined phrase,
\* then each valid tag alone
TagQueries(c) ==
    LET tags_norm == NormTags(Get(c, "tags", <<>>))
    IN  IF tags_norm = <<>> THEN <<>> ELSE <<JoinTags(tags_norm)>> \o tags_norm

\* number of tag queries searched for a cue: up to the first one with an image
TagTried(c) ==
    LET tq == TagQueries(c)
        at == {k \in 1..Len(tq) : tq[k] \in web}
    IN  IF at = {} THEN Len(tq) ELSE Min(at)

\* C13: for a primary cue with at least one valid tag the first search is
\* the joined tag phrase, then each tag alone in tag order, and an entry
\* of the query plan is searched only after all tag queries have been
\* tried and none of them yielded an image.
C13_TagsBeforePlan ==
    pc \in {"expand", "slideshow", "video_done"} =>
        \A i \in 1..Len(cues_src) :
            (IsPrimary(cues_src[i]) /\ TagQueries(cues_src[i]) # <<>>) =>
                LET s  == searched[PrimaryRank(cues_src, i)]
                    tq == TagQueries(cues_src[i])
                    n  == TagTried(cues_src[i])
                IN  /\ Len(s) >= n
                    /\ s[1] = JoinTags(NormTags(cues_src[i].tags))
                    /\ \A k \in 1..n : s[k] = tq[k]
                    /\ Len(s) > n => /\ n = Len(tq)
                                     /\ \A k \in 1..Len(tq) : tq[k] \notin web

\* the scenario of the specification: tags [coffee, cafe]; "coffee cafe",
\* "coffee" and "cafe" are searched in this order before the first plan entry
C13_Witness ==
    /\ pc = "video_done"
    /\ web = {"coffee people indoors"}
    /\ \E k \in 1..Len(searched) :
          searched[k] = <<"coffee cafe", "coffee", "cafe", "coffee people indoors">>

\* C15: the plan entries are searched strictly in plan order, the next
\* entry is searched only when the current one yielded no image, and no
\* entry is searched after the first one that yielded the requested image.
C15_PlanOrderStopsEarly ==
    pc \in {"expand", "slideshow", "video_done"} =>
        \A i \in 1..Len(cues_src) :
            IsPrimary(cues_src[i]) =>
                LET s    == searched[PrimaryRank(cues_src, i)]
                    plan == PlanQueries(cues_src[i].text)
                    o    == TagTried(cues_src[i])
                    n    == Len(s) - o
                IN  /\ n >= 0 /\ n <= Len(plan)
                    /\ \A k \in 1..n : s[o + k] = plan[k]
                    /\ \A k \in 1..(n - 1) : plan[k] \notin web
                    /\ n < Len(plan) =>
                          \/ n > 0 /\ plan[n] \in web
                          \/ n = 0 /\ \E k \in 1..o : s[k] \in web
                    /\ (n > 0 /\ plan[n] \in web) => images[PrimaryRank(cues_src, i)] = plan[n]

\* an untagged cue whose first plan entry fails and whose second one
\* succeeds: two searches, the three later entries are never searched
C15_Witness ==
    /\ pc = "video_done"
    /\ web = {"coffee"}
    /\ \E k \in 1..Len(searched) :
          /\ searched[k] = <<"coffee people indoors", "coffee">>
          /\ images[k] = "coffee"

(***************************************************************************)
(* Properties of the Provider Rankers and the Visual Resolver              *)
(* (SpecResolver)                                                          *)
(***************************************************************************)

\* number of entries of a sequence that satisfy nothing but position: the
\* positions of seq whose value under f is v
CountAt(seq, f(_), v) == Cardinality({i \in 1..Len(seq) : f(seq[i]) = v})

SrcOf(x) == x.src

SameUrl(x) == x

\* C14: within one search_and_download_best call, for every source URL of
\* the merged candidate list at most one download is attempted and at most
\* one file is returned.
C14_OneDownloadPerUrl ==
    \A i \in 1..Len(ranked_all) :
        /\ CountAt(attempts, SameUrl, ranked_all[i].src) <= 1
        /\ CountAt(out, SrcOf, ranked_all[i].src) <= 1

\* both providers return the same URL, two images are requested: the loop
\* visits both candidates, attempts one download and returns one file
C14_Witness ==
    /\ pc = "search_done"
    /\ want_n = 2
    /\ Len(ranked_all) = 2 /\ item_no = 2
    /\ ranked_all[1].src = ranked_all[2].src
    /\ ranked_all[1].provider # ranked_all[2].provider
    /\ attempts = <<ranked_all[1].src>>
    /\ Len(out) = 1

\* a list in descending order of score
Descending(items) == \A i \in 1..(Len(items) - 1) : items[i].score >= items[i + 1].score

\* the provider's exchange failed or delivered a malformed document
Failed(resp) == Caught(resp) \/ LoopRaises(resp)

\* C18: an image search never raises; each provider function returns a
\* list sorted by descending score, the empty list on any failure (network
\* error, HTTP error status, unparsable or malformed response), and a
\* provider without a credential is not called and contributes nothing.
C18_SearchNeverRaises ==
    /\ raised = FALSE
    /\ \A p \in {"pixabay", "unsplash"} :
          /\ Descending(ranked[p])
          /\ Failed(response[p]) => ranked[p] = <<>>
    /\ ~pix_key => ("pixabay" \notin Range(provider_calls) /\ ranked["pixabay"] = <<>>)
    /\ ~uns_key => ("unsplash" \notin Range(provider_calls) /\ ranked["unsplash"] = <<>>)

(***************************************************************************)
(* Properties of speech synthesis (SpecTts)                                *)
(***************************************************************************)

\* safe_tts_to_segment returned a normalised segment that is speech or the
\* 800 ms silent placeholder
SpeechOrPlaceholder ==
    /\ tts_result.normalized
    /\ \/ tts_result.kind = "speech"
       \/ tts_result.kind = "silence" /\ tts_result.ms = 800

RECURSIVE Unsplittable(_)
Unsplittable(k) ==
    IF k = 0 THEN <<>>
    ELSE Unsplittable(k - 1) \o (IF Len(raw_lines[k]) < 2 THEN <<raw_lines[k]>> ELSE <<>>)

\* the lines named by the "malformed line" warnings, in order
RECURSIVE SkippedLines(_)
SkippedLines(w) ==
    IF w = <<>> THEN <<>>
    ELSE (IF Head(w).kind = "malformed" THEN <<Head(w).line>> ELSE <<>>) \o SkippedLines(Tail(w))

RECURSIVE FirstOccurrences(_, _)
FirstOccurrences(items, k) ==
    IF k = 0 THEN <<>>
    ELSE LET before == FirstOccurrences(items, k - 1)
         IN  IF items[k].src \in Range(before) THEN before ELSE Append(before, items[k].src)

\* C23: the merged list is walked in non-increasing score order: the
\* downloads attempted so far are the distinct URLs of the candidates
\* visited so far, in list order, so every distinct-URL candidate with a
\* strictly higher score was attempted before; the walk goes on while
\* fewer than N downloads succeeded and candidates remain, and ends with
\* 0..N files.
C23_BestCandidatesFirst ==
    pc \in {"download", "search_done"} =>
        /\ Descending(ranked_all)
        /\ attempts = FirstOccurrences(ranked_all, item_no)
        /\ Len(out) <= want_n
        /\ pc = "download" => (Len(out) < want_n /\ item_no < Len(ranked_all))
        /\ pc = "search_done" => (Len(out) = want_n \/ item_no = Len(ranked_all))

\* Pixabay returns the lower-scored u1, Unsplash the higher-scored u2; one
\* image is requested: u2 is downloaded and u1 is never attempted
C23_Witness ==
    /\ pc = "search_done"
    /\ want_n = 1
    /\ Len(ranked["pixabay"]) = 1 /\ ranked["pixabay"][1].src = "u1"
    /\ Len(ranked["unsplash"]) = 1 /\ ranked["unsplash"][1].src = "u2"
    /\ attempts = <<"u2">>
    /\ Len(out) = 1 /\ out[1].src = "u2"

\* C22 as stated: a repeated resolution whose images are all cached makes
\* no network call at all.
C22_RepeatIsNetworkFree ==
    (run_no = 2 /\ broken = {}) => (provider_calls = <<>> /\ gets = <<>>)

\* C22 as amended: a repeated resolution requests no image that is in the
\* cache (none at all when every download of the first run succeeded) and
\* returns cached files; the provider searches are issued again.
C22_RepeatSkipsDownloads ==
    run_no = 2 =>
        /\ \A k \in 1..Len(gets) : gets[k] \in broken
        /\ Range(out) \subseteq cache_files
        /\ (pc \in {"download", "search_done"} /\ pix_key) => "pixabay" \in Range(provider_calls)
        /\ (pc \in {"download", "search_done"} /\ uns_key) => "unsplash" \in Range(provider_calls)

\* the repetition returns the cached image of u2 without requesting it,
\* after asking both providers again
C22_Witness ==
    /\ run_no = 2
    /\ pc = "search_done"
    /\ broken = {}
    /\ provider_calls = <<"pixabay", "unsplash">>
    /\ attempts = <<"u2">>
    /\ gets = <<>>
    /\ Len(out) = 1 /\ out[1] \in cache_files

(***************************************************************************)
(* Properties of the provider credentials (SpecCredentials)                *)
(***************************************************************************)

\* number of entries of seq equal to v
Occurrences(seq, v) == Cardinality({i \in 1..Len(seq) : seq[i] = v})

\* a provider without a key is never called, the provider with a key is
\* called for every query searched
SkippedCleanly ==
    /\ ~pix_key => "pixabay" \notin Range(provider_calls)
    /\ ~uns_key => "unsplash" \notin Range(provider_calls)
    /\ (pix_key /\ ~uns_key) => Occurrences(provider_calls, "pixabay") >= Len(skip_log)
    /\ (uns_key /\ ~pix_key) => Occurrences(provider_calls, "unsplash") = Len(skip_log)

\* C28: a provider without a key is skipped without error for every query
\* of the run while the other provider is still queried, and the skip is
\* logged once per run.
C28_SkipLoggedOnce ==
    /\ SkippedCleanly
    /\ Occurrences(skip_log, "pixabay") <= 1
    /\ Occurrences(skip_log, "unsplash") <= 1

(***************************************************************************)
(* Properties of the gaps of the draft timeline (Spec)                     *)
(***************************************************************************)

\* C24: consecutive draft cues never overlap; a secondary cue starts
\* exactly max(pause_sent, 1700) ms after the end of its primary cue; the
\* next primary cue starts at least pause_sent ms after the end of the
\* previous cue: pause_sent after a secondary cue, and the pre-translation
\* gap plus pause_sent after a primary cue without translation.
C24_DraftWindowsDisjoint ==
    \A i \in 1..(Len(cues_draft) - 1) :
        LET a == cues_draft[i]
            b == cues_draft[i + 1]
        IN  /\ a.end <= b.start
            /\ ~b.is_primary => b.start = a.end + Max(settings.pause_sent, 1700)
            /\ b.is_primary => b.start >= a.end + settings.pause_sent
            /\ (b.is_primary /\ ~a.is_primary) => b.start = a.end + settings.pause_sent
            /\ (b.is_primary /\ a.is_primary) =>
                  b.start = a.end + Max(settings.pause_sent, 1700) + settings.pause_sent

\* pause_sent = 400: the translation starts 1700 ms after its primary cue,
\* the next primary cue 400 ms after the translation, and the primary cue
\* after an untranslated one 2100 ms later
C24_Witness ==
    /\ pc = "draft"
    /\ settings.pause_sent = 400
    /\ Len(cues_draft) = 3
    /\ cues_draft[1].is_primary /\ ~cues_draft[2].is_primary /\ cues_draft[3].is_primary
    /\ cues_draft[2].start = cues_draft[1].end + 1700
    /\ cues_draft[3].start = cues_draft[2].end + 400

(***************************************************************************)
(* Properties of the primary query and its alternates (SpecQuery)          *)
(***************************************************************************)

\* position of the first entry of seq equal to e, 0 if there is none
PositionOf(seq, e) ==
    IF \E i \in 1..Len(seq) : seq[i] = e
    THEN Min({i \in 1..Len(seq) : seq[i] = e})
    ELSE 0

\* C25: when the Lexicon Matcher returns hits h1..hk (k >= 1), the first
\* plan entry is (template of h1, category of h1) and the remaining hits,
\* up to 3 of them, follow it as alternates with their own template and
\* category, in hit order.
C25_PrimaryThenAlternates ==
    (pc = "plan_done" /\ hits # <<>>) =>
        /\ pairs[1] = QUERY_TEMPLATES(hits[1])
        /\ \A j \in 2..Min({Len(hits), 4}) :
              /\ PositionOf(pairs, QUERY_TEMPLATES(hits[j])) >= 1
              /\ PositionOf(pairs, QUERY_TEMPLATES(hits[j])) <= j

(***************************************************************************)
(* Alignment of images and cues (SpecVideo)                                *)
(***************************************************************************)

\* index of the nearest primary cue before cue i, 0 if there is none
PrecedingPrimary(cues, i) ==
    IF \E j \in 1..(i - 1) : IsPrimary(cues[j])
    THEN CHOOSE j \in 1..(i - 1) :
            /\ IsPrimary(cues[j])
            /\ \A k \in (j + 1)..(i - 1) : ~IsPrimary(cues[k])
    ELSE 0

\* C26: the image list handed to the slideshow has one entry per cue, in
\* cue order; the k-th primary cue carries the image resolved for it (the
\* k-th entry of get_images_for_cues, which is the image found for that
\* cue's own tags and text), and a secondary cue carries the image of the
\* nearest preceding primary cue, None if that cue has none or there is no
\* such cue.
C26_ImagesAlignedWithCues ==
    pc \in {"slideshow", "video_done"} =>
        /\ Len(expanded_images) = Len(cues_src)
        /\ Len(images) = Len(SelectSeq(cues_src, IsPrimary))
        /\ \A i \in 1..Len(cues_src) :
              IF IsPrimary(cues_src[i])
              THEN /\ expanded_images[i] = images[PrimaryRank(cues_src, i)]
                   /\ expanded_images[i] = ImageForCue(cues_src[i]).img
              ELSE expanded_images[i] =
                      IF PrecedingPrimary(cues_src, i) = 0 THEN None
                      ELSE expanded_images[PrecedingPrimary(cues_src, i)]

\* a primary cue without image, a primary cue with an image and a
\* secondary cue that shows the image of the second primary cue
C26_Witness ==
    /\ pc = "slideshow"
    /\ Len(cues_src) = 3
    /\ IsPrimary(cues_src[1]) /\ IsPrimary(cues_src[2]) /\ ~IsPrimary(cues_src[3])
    /\ expanded_images[1] = None
    /\ expanded_images[2] # None
    /\ expanded_images[3] = expanded_images[2]
(***************************************************************************)
(* Length of the assembled video (SpecVideo)                               *)
(***************************************************************************)

RECURSIVE TotalFrames(_, _)
TotalFrames(fs, i) == IF i > Len(fs) THEN 0 ELSE fs[i] + TotalFrames(fs, i + 1)

\* C27: for a cue list whose first cue starts at 0 (taken here with
\* strictly increasing starts that lie before the end of the audio, as the
\* pipeline produces them), the frame counts of all rendered spans add up
\* to round(total_audio_ms * fps / 1000).
C27_FramesSumToAudioLength ==
    ( /\ pc = "video_done"
      /\ cues_src # <<>>
      /\ cues_src[1].start = 0
      /\ \A i \in 1..(Len(cues_src) - 1) : cues_src[i].start < cues_src[i + 1].start
      /\ cues_src[Len(cues_src)].start < total_audio_ms )
    => TotalFrames(frames, 1) = PyRound(total_audio_ms * VIDEO_FPS, 1000)
(***************************************************************************)
(* Automatic tags of a parsed line (SpecInput)                             *)
(***************************************************************************)

\* C29: a parsed line whose primary text carries no hashtags gets the
\* words derived from sentence_to_query_extras(primary text) as its tags,
\* at most 6 of them; its tags are empty only if the derivation yields no
\* candidate word.
C29_AutoTagsDerived ==
    \A i \in 1..Len(logical_lines) :
        LET l == logical_lines[i]
        IN  /\ Len(l.tags) <= 6
            /\ l.tags = <<>> => CandidateWords(l.primary) = <<>>
(***************************************************************************)
(* Length of the final track (SpecAudio)                                   *)
(***************************************************************************)

\* every window is positive and no window runs into the next start
PositiveDisjoint(cues) ==
    /\ cues # <<>>
    /\ \A i \in 1..Len(cues) : cues[i].end - cues[i].start > 0
    /\ \A i \in 1..(Len(cues) - 1) : cues[i].end <= cues[i + 1].start

\* C30: for a cue list with positive windows and end_i <= start_(i+1) the
\* track returned by build_audio_snapped_to_cues is exactly last_cue.end
\* ms long and keeps that length when the background music is overlaid,
\* so the last visual span, which ends at the length of the mixed track,
\* is the last cue's own window.
C30_TrackEndsAtLastCue ==
    PositiveDisjoint(cues_src) =>
        LET last == cues_src[Len(cues_src)]
        IN  /\ pc \in {"audio_done", "mixed"} => out_len = last.end
            /\ pc = "mixed" =>
                  /\ mixed_len = last.end
                  /\ compute_visual_spans(cues_src, mixed_len)[Len(cues_src)]
                        = <<last.start, last.end>>

\* two cues with a pause between them, the second one cut to its window,
\* mixed with background music that is longer than the speech
C30_Witness ==
    /\ pc = "mixed"
    /\ PositiveDisjoint(cues_src)
    /\ Len(cues_src) = 2
    /\ cues_src[2].start = 4300 /\ cues_src[2].end = 9000
    /\ seg_lens[2] = 5000
    /\ bg_file = 20000
    /\ mixed_len = 9000
(***************************************************************************)
(* Concurrent use of a cache key (SpecCache)                               *)
(***************************************************************************)

\* C21: when concurrent runs resolve the same cache key, the cache file of
\* the key is written at most once (a run that loses the race discards
\* its bytes and reads the winner's), and no run that uses the file finds
\* it missing or partially written.
C21_CacheSafeUnderConcurrency ==
    /\ writes <= 1
    /\ \A w \in DOMAIN observed : observed[w] \notin {"partial", "absent", "raised"}
====
